---- MODULE Spec2Model ----
(***************************************************************************)
(* State-machine model of the perf-net data plane of SimpleXray:           *)
(*   - the slot ring of hyper/hyper_ring.cpp           (variables h..)     *)
(*   - the byte ring of perf_ring_buffer.cpp           (variables rb..)    *)
(*   - the crypto worker pool of hyper/hyper_crypto.cpp (variables c..)   *)
(*   - the connection pool of perf_connection_pool.cpp (variables p.., k..) *)
(* Each subsystem has its own specification; the variables of the other    *)
(* subsystems stay at their initial value in it.                           *)
(***************************************************************************)
EXTENDS Integers, Sequences, FiniteSets, TLC

VARIABLES
    hring,      \* HyperRing: capacity, capacity_mask, write_pos, read_pos, slots
    hprod,      \* producer thread inside nativeRingWrite: pc and locals
    hcons,      \* consumer thread inside nativeRingRead: pc and locals
    hWritten,   \* history: payloads of the writes that returned a slot handle
    hReadLog,   \* history: payloads found in the slots returned by read
    hWriteRet,  \* history: outcome of the last finished write call
    hReadRet,   \* history: outcome of the last finished read call
    hapi,       \* the memory behind the handles of one caller's slot ring and byte ring
    hcall,      \* history: the last call of that caller, its arguments and its result
    cslots,     \* slot->payloadSize of the ring slots the crypto jobs reference
    g_burst_tracker,  \* the burst tracker
    bwindows,   \* history: the windows closed since the tracker was initialised
    blast,      \* history: the last call on the tracker and the tracker before it
    bcalls,     \* history: number of calls made on the tracker
    g_crypto_cache,   \* cached and available of the crypto capability cache
    g_cpu_caps,       \* the capability mask of hyper_cpu.cpp
    g_caps_initialized,
    qthread,    \* the threads that query the capabilities
    qhw,        \* what the hardware of the process reports
    qhist,      \* history: the detections run and the values returned
    rb,         \* RingBuffer: capacity, mask, positions, sequences, data bytes
    rbw,        \* writer thread inside nativeRingBufferWrite: pc and locals
    rbr,        \* reader thread inside nativeRingBufferRead: pc and locals
    rbTotW,     \* history: bytes published by the writer so far
    rbTotR,     \* history: bytes consumed by the reader so far
    rbFifoOk,   \* history: every byte copied out so far was the next byte written
    cjobs,      \* heap cells that hold a CryptoJob, by address
    cqueue,     \* CryptoPool::jobQueue, a FIFO of job pointers
    crunning,   \* CryptoPool::running
    cworker,    \* crypto_worker threads: pc and locals
    csubmit,    \* thread inside nativeSubmitCrypto: pc and the job it created
    cheld,      \* job handles returned by submit and not yet released
    caw,        \* thread inside nativeWaitCrypto: pc, arguments, result
    cclock,     \* wall clock, in milliseconds
    cuaf,       \* history: a worker touched a job after nativeFreeCryptoJob freed it
    csubmits,   \* history: number of jobs accepted by submit
    pools,      \* g_pools: per pool type the slot vector and the initialized flag
    kopen,      \* kernel: fd numbers that are open sockets of the process
    kbroken,    \* kernel: open sockets with a pending error (SO_ERROR # 0)
    pinitTh,    \* thread inside nativeInitConnectionPool: pc, pool index, sizes
    pdestTh,    \* thread inside nativeDestroyConnectionPool: pc, pool index
    pheld,      \* history: per caller, the slots acquire gave it and it has not released
    pcloses,    \* history: per fd number, close calls of the pool since socket() returned it
    pacq,       \* history: the last acquire: were all slots in use, did it return an fd
    kconn,      \* kernel: per fd number, the TCP state of the socket and its peer
    pconn,      \* history: the last connect call that reached connect()
    prel,       \* history: the last release and the acquire that followed it
    popened,    \* history: per pool type, sockets created so far and the fds they got
    pghost      \* which of the histories pheld/pacq ("held") and pcloses ("closes") are recorded

hvars == <<hring, hprod, hcons, hWritten, hReadLog, hWriteRet, hReadRet>>
apivars == <<hapi, hcall>>
slotvars == <<cslots>>
burstvars == <<g_burst_tracker, bwindows, bcalls, blast>>
probevars == <<g_crypto_cache, g_cpu_caps, g_caps_initialized, qthread, qhw, qhist>>
rbvars == <<rb, rbw, rbr, rbTotW, rbTotR, rbFifoOk>>

cvars == <<cjobs, cqueue, crunning, cworker, csubmit, cheld, caw, cclock, cuaf, csubmits>>
poolvars == <<pools, kopen, kbroken, pinitTh, pdestTh, pheld, pcloses, pacq, kconn, pconn,
              prel, popened, pghost>>

\* What the operations of one subsystem leave alone: the other subsystems.
HyperFrame == UNCHANGED <<rbvars, cvars, poolvars, apivars, slotvars, burstvars, probevars>>
PerfFrame == UNCHANGED <<hvars, cvars, poolvars, apivars, slotvars, burstvars, probevars>>
CryptoFrame == UNCHANGED <<hvars, rbvars, poolvars, apivars, slotvars, burstvars, probevars>>
PoolFrame == UNCHANGED <<hvars, rbvars, cvars, apivars, slotvars, burstvars, probevars>>

----------------------------------------------------------------------------
(* Bit operations on naturals, as the C operators | and & compute them.    *)

RECURSIVE BitOr(_, _)
BitOr(a, b) ==
    IF a = 0 THEN b
    ELSE IF b = 0 THEN a
    ELSE (IF a % 2 = 1 \/ b % 2 = 1 THEN 1 ELSE 0) + 2 * BitOr(a \div 2, b \div 2)

RECURSIVE BitAnd(_, _)
BitAnd(a, b) ==
    IF a = 0 \/ b = 0 THEN 0
    ELSE (IF a % 2 = 1 /\ b % 2 = 1 THEN 1 ELSE 0) + 2 * BitAnd(a \div 2, b \div 2)

ShiftRight(n, k) == n \div (2 ^ k)

\* A rounding that forgets the decrement: a power of two is doubled.
RoundUpPastPower2(n) ==
    IF n <= 1 THEN 1
    ELSE LET n1 == BitOr(n, ShiftRight(n, 1))
             n2 == BitOr(n1, ShiftRight(n1, 2))
             n3 == BitOr(n2, ShiftRight(n2, 4))
             n4 == BitOr(n3, ShiftRight(n3, 8))
             n5 == BitOr(n4, ShiftRight(n4, 16))
         IN  n5 + 1

\* round_up_power2: smear the highest set bit of n-1 to the right, add one.
round_up_power2(n) ==
    IF n <= 1 THEN 1
    ELSE LET n0 == n - 1
             n1 == BitOr(n0, ShiftRight(n0, 1))
             n2 == BitOr(n1, ShiftRight(n1, 2))
             n3 == BitOr(n2, ShiftRight(n2, 4))
             n4 == BitOr(n3, ShiftRight(n3, 8))
             n5 == BitOr(n4, ShiftRight(n4, 16))
         IN  n5 + 1

----------------------------------------------------------------------------
(* Slot ring: hyper/hyper_ring.cpp                                         *)

\* Bounds of the slot-ring model.
MaxHyperWrites == 5          \* successful writes explored
NumPayloads == 2             \* distinct payload contents offered to write
HyperCapHints == {2, 3}      \* capacity arguments given to nativeCreateRing

HyperPayloads == 1 .. NumPayloads
NullPayload == 0

\* nativeCreateRing: capacity rounded up, slots zeroed, both positions 0.
CreateRing(capacity) ==
    LET pow2_capacity == round_up_power2(capacity)
    IN  [capacity      |-> pow2_capacity,
         capacity_mask |-> pow2_capacity - 1,
         write_pos     |-> 0,
         read_pos      |-> 0,
         slots         |-> [i \in 0 .. pow2_capacity - 1 |-> [payload |-> NullPayload]]]

\* The space check of nativeRingWrite: (write_pos - read_pos) & capacity_mask.
\* The difference is taken in uint64_t; the mask keeps its low bits, which are
\* those of the difference modulo the (power of two) capacity.
HyperUsed(write_pos, read_pos, ring) ==
    (write_pos - read_pos) % (ring.capacity_mask + 1)

HyperProdIdle == [pc |-> "idle", write_pos |-> 0, read_pos |-> 0, data |-> NullPayload]
HyperConsIdle == [pc |-> "idle", write_pos |-> 0, read_pos |-> 0]

HInit(capacity) ==
    /\ hring = CreateRing(capacity)
    /\ hprod = HyperProdIdle
    /\ hcons = HyperConsIdle
    /\ hWritten = << >>
    /\ hReadLog = << >>
    /\ hWriteRet = "none"
    /\ hReadRet = "none"

\* nativeRingWrite, lines 144-153: load both positions, check the space.
HyperWriteLoad(data) ==
    /\ hprod.pc = "idle"
    /\ Len(hWritten) < MaxHyperWrites
    /\ LET write_pos == hring.write_pos
           read_pos  == hring.read_pos
           used      == HyperUsed(write_pos, read_pos, hring)
       IN  IF used >= hring.capacity
           THEN /\ hWriteRet' = "full"
                /\ UNCHANGED hprod
           ELSE /\ hprod' = [pc |-> "fill", write_pos |-> write_pos,
                             read_pos |-> read_pos, data |-> data]
                /\ UNCHANGED hWriteRet
    /\ UNCHANGED <<hring, hcons, hWritten, hReadLog, hReadRet>>
    /\ HyperFrame

\* nativeRingWrite, lines 155-185: fill the slot at write_pos & capacity_mask.
HyperWriteFill ==
    /\ hprod.pc = "fill"
    /\ LET slot_idx == BitAnd(hprod.write_pos, hring.capacity_mask)
       IN  hring' = [hring EXCEPT !.slots[slot_idx].payload = hprod.data]
    /\ hprod' = [hprod EXCEPT !.pc = "publish"]
    /\ UNCHANGED <<hcons, hWritten, hReadLog, hWriteRet, hReadRet>>
    /\ HyperFrame

\* nativeRingWrite, lines 187-191: publish write_pos + 1, return the slot.
HyperWritePublish ==
    /\ hprod.pc = "publish"
    /\ hring' = [hring EXCEPT !.write_pos = hprod.write_pos + 1]
    /\ hWritten' = Append(hWritten, hprod.data)
    /\ hWriteRet' = "ok"
    /\ hprod' = HyperProdIdle
    /\ UNCHANGED <<hcons, hReadLog, hReadRet>>
    /\ HyperFrame

\* nativeRingRead, lines 239-244: load both positions, check for empty.
HyperReadLoad ==
    /\ hcons.pc = "idle"
    /\ LET read_pos  == hring.read_pos
           write_pos == hring.write_pos
       IN  IF read_pos >= write_pos
           THEN /\ hReadRet' = "empty"
                /\ UNCHANGED hcons
           ELSE /\ hcons' = [pc |-> "advance", write_pos |-> write_pos,
                             read_pos |-> read_pos]
                /\ UNCHANGED hReadRet
    /\ UNCHANGED <<hring, hprod, hWritten, hReadLog, hWriteRet>>
    /\ HyperFrame

\* nativeRingRead, lines 246-252: advance read_pos, return the slot; the
\* history records the payload the returned slot holds at that moment.
HyperReadAdvance ==
    /\ hcons.pc = "advance"
    /\ LET slot_idx == BitAnd(hcons.read_pos, hring.capacity_mask)
       IN  hReadLog' = Append(hReadLog, hring.slots[slot_idx].payload)
    /\ hring' = [hring EXCEPT !.read_pos = hcons.read_pos + 1]
    /\ hReadRet' = "ok"
    /\ hcons' = HyperConsIdle
    /\ UNCHANGED <<hprod, hWritten, hWriteRet>>
    /\ HyperFrame

HNext ==
    \/ \E data \in HyperPayloads : HyperWriteLoad(data)
    \/ HyperWriteFill
    \/ HyperWritePublish
    \/ HyperReadLoad
    \/ HyperReadAdvance

----------------------------------------------------------------------------
(* Byte ring: perf_ring_buffer.cpp                                         *)

\* Bounds of the byte-ring model.  The positions are uint64_t and the
\* sequences uint32_t in the code; the model keeps the same arithmetic on
\* words of PosBits and SeqBits bits, so that the wrap threshold
\* UINT64_MAX - capacity is reached from the freshly created ring.
PosBits == 5
SeqBits == 3
MaxPerfLen == 2              \* longest write / read request, in bytes
ByteMod == 5                 \* the k-th byte written carries the tag k % ByteMod + 1
PerfCapacityHint == 4        \* capacity argument given to nativeCreateRingBuffer
PerfExtraBytes == 8          \* bytes written beyond one full turn of the position word

TwoToPosBits == 2 ^ PosBits
UINT64_MAX == TwoToPosBits - 1
SeqModulus == 2 ^ SeqBits - 1          \* 0xFFFFFFFF in the code
MaxPerfBytes == TwoToPosBits + PerfExtraBytes

\* Unsigned arithmetic of the position word.
U64(x) == x % TwoToPosBits

\* Content of a byte nobody wrote (posix_memalign does not initialise); it
\* differs from every tag a write stores.
Uninit == 0
ByteTag(k) == (k % ByteMod) + 1

\* nativeCreateRingBuffer.
CreateRingBuffer(capacity) ==
    LET pow2_capacity == round_up_power2(capacity)
    IN  [capacity      |-> pow2_capacity,
         capacity_mask |-> pow2_capacity - 1,
         write_pos     |-> 0,
         write_seq     |-> 0,
         read_pos      |-> 0,
         read_seq      |-> 0,
         data          |-> [i \in 0 .. pow2_capacity - 1 |-> Uninit]]

\* The sequence-aware occupancy of lines 156-174 (write) and 293-311 (read).
PerfOccupancy(write_pos, write_seq, read_pos, read_seq, capacity) ==
    LET raw == IF write_seq = read_seq
               THEN IF write_pos >= read_pos
                    THEN U64(write_pos - read_pos)
                    ELSE U64(capacity - U64(read_pos - write_pos))
               ELSE U64(capacity - U64(read_pos - (write_pos % capacity)))
    IN  IF raw > capacity THEN capacity ELSE raw

\* Position and sequence after advancing by n (lines 231-241, 353-362).
PerfAdvance(pos, seq, n, ring) ==
    LET new_pos == U64(pos + n)
    IN  IF new_pos >= UINT64_MAX - ring.capacity
        THEN [pos |-> BitAnd(new_pos, ring.capacity_mask), seq |-> (seq + 1) % SeqModulus]
        ELSE [pos |-> new_pos, seq |-> seq]

PerfIdle == [pc |-> "idle", len |-> 0, pos |-> 0, seq |-> 0, occ |-> 0, trueOcc |-> 0,
             new_pos |-> 0]

RbInit(capacity) ==
    /\ rb = CreateRingBuffer(capacity)
    /\ rbw = PerfIdle
    /\ rbr = PerfIdle
    /\ rbTotW = 0
    /\ rbTotR = 0
    /\ rbFifoOk = TRUE

\* nativeRingBufferWrite, lines 149-188: load the four counters, compute the
\* used space, give up when the request does not fit.
PerfWriteLoad(length) ==
    /\ rbw.pc = "idle"
    /\ rbTotW < MaxPerfBytes
    /\ LET used      == PerfOccupancy(rb.write_pos, rb.write_seq, rb.read_pos, rb.read_seq,
                                      rb.capacity)
           available == rb.capacity - used
       IN  IF available < length \/ rb.write_pos > UINT64_MAX - length
           THEN rbw' = [PerfIdle EXCEPT !.occ = used, !.trueOcc = rbTotW - rbTotR]
           ELSE rbw' = [pc |-> "copy", len |-> length, pos |-> rb.write_pos,
                        seq |-> rb.write_seq, occ |-> used, trueOcc |-> rbTotW - rbTotR,
                        new_pos |-> 0]
    /\ UNCHANGED <<rb, rbr, rbTotW, rbTotR, rbFifoOk>>
    /\ PerfFrame

\* nativeRingBufferWrite, lines 190-246: copy the bytes to pos, pos+1, ...
\* (index masked, so the second memcpy starts at 0), store the new sequence
\* when it changed.
PerfWriteCopy ==
    /\ rbw.pc = "copy"
    /\ LET pos == BitAnd(rbw.pos, rb.capacity_mask)
           adv == PerfAdvance(rbw.pos, rbw.seq, rbw.len, rb)
           written == {(pos + k) % rb.capacity : k \in 0 .. rbw.len - 1}
           offsetOf(i) == (i - pos) % rb.capacity
       IN  /\ rb' = [rb EXCEPT
                       !.data = [i \in DOMAIN rb.data |->
                                   IF i \in written THEN ByteTag(rbTotW + offsetOf(i))
                                   ELSE rb.data[i]],
                       !.write_seq = adv.seq]
           /\ rbw' = [rbw EXCEPT !.pc = "store", !.new_pos = adv.pos]
    /\ UNCHANGED <<rbr, rbTotW, rbTotR, rbFifoOk>>
    /\ PerfFrame

\* nativeRingBufferWrite, lines 247-250: publish the new write position.
PerfWriteStore ==
    /\ rbw.pc = "store"
    /\ rb' = [rb EXCEPT !.write_pos = rbw.new_pos]
    /\ rbTotW' = rbTotW + rbw.len
    /\ rbw' = [rbw EXCEPT !.pc = "idle"]
    /\ UNCHANGED <<rbr, rbTotR, rbFifoOk>>
    /\ PerfFrame

\* nativeRingBufferRead, lines 286-317: load the four counters, compute the
\* available bytes, return 0 when there are none.
PerfReadLoad(maxLength) ==
    /\ rbr.pc = "idle"
    /\ LET available == PerfOccupancy(rb.write_pos, rb.write_seq, rb.read_pos, rb.read_seq,
                                      rb.capacity)
           to_read   == IF maxLength < available THEN maxLength ELSE available
       IN  IF available = 0
           THEN rbr' = [PerfIdle EXCEPT !.occ = available, !.trueOcc = rbTotW - rbTotR]
           ELSE rbr' = [pc |-> "copy", len |-> to_read, pos |-> rb.read_pos,
                        seq |-> rb.read_seq, occ |-> available,
                        trueOcc |-> rbTotW - rbTotR, new_pos |-> 0]
    /\ UNCHANGED <<rb, rbw, rbTotW, rbTotR, rbFifoOk>>
    /\ PerfFrame

\* nativeRingBufferRead, lines 332-367: copy to_read bytes out, store the new
\* sequence when it changed.  The history compares each byte copied out with
\* the byte the writer stored at that place in the stream.
PerfReadCopy ==
    /\ rbr.pc = "copy"
    /\ LET pos == BitAnd(rbr.pos, rb.capacity_mask)
           adv == PerfAdvance(rbr.pos, rbr.seq, rbr.len, rb)
       IN  /\ rbFifoOk' = (rbFifoOk /\
                           \A k \in 0 .. rbr.len - 1 :
                               rb.data[(pos + k) % rb.capacity] = ByteTag(rbTotR + k))
           /\ rb' = [rb EXCEPT !.read_seq = adv.seq]
           /\ rbr' = [rbr EXCEPT !.pc = "store", !.new_pos = adv.pos]
    /\ UNCHANGED <<rbw, rbTotW, rbTotR>>
    /\ PerfFrame

\* A read that also wipes the bytes of the ring when it publishes.
PerfReadStoreWiping ==
    /\ rbr.pc = "store"
    /\ rb' = [rb EXCEPT !.read_pos = rbr.new_pos,
                        !.data = [i \in DOMAIN rb.data |-> Uninit]]
    /\ rbTotR' = rbTotR + rbr.len
    /\ rbr' = [rbr EXCEPT !.pc = "idle"]
    /\ UNCHANGED <<rbw, rbTotW, rbFifoOk>>
    /\ PerfFrame

\* nativeRingBufferRead, lines 368-371: publish the new read position.
PerfReadStore ==
    /\ rbr.pc = "store"
    /\ rb' = [rb EXCEPT !.read_pos = rbr.new_pos]
    /\ rbTotR' = rbTotR + rbr.len
    /\ rbr' = [rbr EXCEPT !.pc = "idle"]
    /\ UNCHANGED <<rbw, rbTotW, rbFifoOk>>
    /\ PerfFrame

RbNext ==
    \/ \E length \in 1 .. MaxPerfLen : PerfWriteLoad(length)
    \/ PerfWriteCopy
    \/ PerfWriteStore
    \/ \E maxLength \in 1 .. MaxPerfLen : PerfReadLoad(maxLength)
    \/ PerfReadCopy
    \/ PerfReadStore

----------------------------------------------------------------------------
(* The calls of one thread on one slot ring and one byte ring, from create *)
(* to destroy: hyper/hyper_ring.cpp and perf_ring_buffer.cpp.  Each call   *)
(* runs from entry to return; the arguments are those of the JNI           *)
(* functions.                                                              *)

\* Bounds of the call model.  A write that runs past the payload pool has no
\* defined outcome: the process goes on with the ring as written, or dies.
MaxRingWrites == 2           \* nativeRingWrite calls that reach the slot
MaxRingCalls == 4            \* calls on the slot ring explored
JintBits == 12               \* width of a jint (32 in the code)

HyperMaxCapacity == 65536               \* 64 * 1024, hyper_ring.cpp line 62
PerfMaxCapacity == 67108864             \* 64 * 1024 * 1024, perf_ring_buffer.cpp line 67
SlabItem == 1500                         \* hyper_ring.cpp lines 165 and 167
TwoTo16 == 65536                         \* values of a uint16_t

CapacityArgs == {-1, 0, 1, 3, 65536, 65537}   \* capacity arguments of nativeCreateRing
PayloadSizeArgs == {0, 64, 1500}              \* payloadSize arguments of nativeCreateRing
PerfCapacityArgs == {0, 4, PerfMaxCapacity + 1}
ArrayLength == 1501                           \* GetArrayLength(data)
OffsetArgs == {-1, 0, 1}
JintMax == 2 ^ (JintBits - 1) - 1
LengthArgs == {-1, 2, 1501, JintMax}
TimestampArgs == {-1, 5}
FlagsArgs == {1, 65536}
QueueArgs == {2, 65538}

\* static_cast<uint16_t> of a jint, and a uint64_t read back as a jlong.
U16(x) == x % TwoTo16
AsJlong(u) == IF u >= TwoToPosBits \div 2 THEN u - TwoToPosBits ELSE u

\* offset + length of line 134 on two jint.  The sum of two int that does
\* not fit is undefined: the build computes the sum in two's complement, or
\* (with trapping arithmetic) stops the process.
JintOverflows(a, b) == a + b > JintMax \/ a + b < 0 - JintMax - 1
JintAdd(a, b) == ((a + b + 2 ^ (JintBits - 1)) % (2 ^ JintBits)) - 2 ^ (JintBits - 1)

\* The bytes memcpy copies from src + offset: which bytes of the array.
NoBytes == [from |-> 0, len |-> 0]
BytesAt(offset, length) == [from |-> offset, len |-> length]

\* slot->payload: null, a place in the payload pool (at is the offset from
\* ring->payload_pool) or a block malloc returned (at names the block, by the
\* write position of the call that allocated it).
NullPayloadPtr == [kind |-> "null", at |-> 0, bytes |-> NoBytes]
ZeroMeta == [timestampNs |-> 0, length |-> 0, flags |-> 0, queue |-> 0]
ZeroSlot == [meta |-> ZeroMeta, payload |-> NullPayloadPtr, payloadSize |-> 0]

\* ring->slots[i]: the slots are zeroed by create (line 86) and kept here
\* only once written.
SlotOf(ring, i) == IF i \in DOMAIN ring.slots THEN ring.slots[i] ELSE ZeroSlot

WithSlot(ring, i, slot) ==
    [ring EXCEPT !.slots = [j \in DOMAIN ring.slots \cup {i} |->
                               IF j = i THEN slot ELSE ring.slots[j]]]

NoRing == [capacity |-> 0, capacity_mask |-> 0, write_pos |-> 0, write_seq |-> 0,
           read_pos |-> 0, read_seq |-> 0, slots |-> << >>,
           payload_pool |-> FALSE, payload_pool_size |-> 0]

\* nativeCreateRing, lines 62-105.  The result is the handle (0 for none)
\* and the ring behind it.
nativeCreateRing(capacity, payloadSize, alloc_ok, pool_ok) ==
    IF capacity <= 0 \/ capacity > HyperMaxCapacity
    THEN [ret |-> 0, ring |-> NoRing]
    ELSE IF ~alloc_ok
    THEN [ret |-> 0, ring |-> NoRing]
    ELSE LET pow2_capacity == round_up_power2(capacity)
             pooled        == payloadSize > 0 /\ pool_ok
         IN  [ret  |-> 1,
              ring |-> [capacity          |-> pow2_capacity,
                        capacity_mask     |-> pow2_capacity - 1,
                        write_pos         |-> 0,
                        write_seq         |-> 0,
                        read_pos          |-> 0,
                        read_seq          |-> 0,
                        slots             |-> << >>,
                        payload_pool      |-> pooled,
                        payload_pool_size |-> IF pooled THEN pow2_capacity * payloadSize
                                              ELSE 0]]

\* nativeRingWrite, lines 123-191.  src_ok: GetPrimitiveArrayCritical gave
\* the bytes; malloc_ok: malloc at line 174 gave a buffer.  The result is the
\* return value (0, or the slot as index + 1), the ring afterwards, and
\* whether memcpy at line 168 wrote past the end of the payload pool.
nativeRingWrite(ring, offset, length, timestampNs, flags, queue, src_ok, malloc_ok) ==
    IF length < 0 \/ offset < 0
    THEN [ret |-> 0, ring |-> ring, overrun |-> FALSE]
    ELSE IF JintAdd(offset, length) > ArrayLength
    THEN [ret |-> 0, ring |-> ring, overrun |-> FALSE]
    ELSE IF ~src_ok
    THEN [ret |-> 0, ring |-> ring, overrun |-> FALSE]
    ELSE LET write_pos == ring.write_pos
             read_pos  == ring.read_pos
             used      == HyperUsed(write_pos, read_pos, ring)
             slot_idx  == BitAnd(write_pos, ring.capacity_mask)
             meta      == [timestampNs |-> U64(timestampNs),
                           length      |-> length,
                           flags       |-> U16(flags),
                           queue       |-> U16(queue)]
             withMeta  == [SlotOf(ring, slot_idx) EXCEPT !.meta = meta]
             filled(k, at) == [withMeta EXCEPT !.payload = [kind |-> k, at |-> at,
                                                            bytes |-> BytesAt(offset, length)],
                                               !.payloadSize = length]
         IN  IF used >= ring.capacity
             THEN [ret |-> 0, ring |-> ring, overrun |-> FALSE]
             ELSE IF ring.payload_pool /\ length <= SlabItem
             THEN [ret     |-> slot_idx + 1,
                   ring    |-> [WithSlot(ring, slot_idx, filled("pool", slot_idx * SlabItem)) EXCEPT
                                   !.write_pos = write_pos + 1],
                   overrun |-> slot_idx * SlabItem + length > ring.payload_pool_size]
             ELSE IF malloc_ok
             THEN [ret     |-> slot_idx + 1,
                   ring    |-> [WithSlot(ring, slot_idx, filled("heap", write_pos)) EXCEPT
                                   !.write_pos = write_pos + 1],
                   overrun |-> FALSE]
             ELSE [ret |-> 0, ring |-> WithSlot(ring, slot_idx, withMeta), overrun |-> FALSE]

\* nativeRingRead, lines 236-252: the slot at read_pos, as index + 1, or 0.
nativeRingRead(ring) ==
    LET read_pos  == ring.read_pos
        write_pos == ring.write_pos
        slot_idx  == BitAnd(read_pos, ring.capacity_mask)
    IN  IF read_pos >= write_pos
        THEN [ret |-> 0, ring |-> ring]
        ELSE [ret |-> slot_idx + 1, ring |-> [ring EXCEPT !.read_pos = read_pos + 1]]

\* What the caller supplied to a write, and the history of a call.
NoSupplied == [bytes |-> NoBytes, timestampNs |-> 0, length |-> 0, flags |-> 0, queue |-> 0]
NoCall == [op |-> "none", ret |-> 0, changed |-> FALSE, requested |-> 0,
           supplied |-> NoSupplied, was_empty |-> FALSE, roundtrip |-> FALSE,
           got |-> ZeroSlot, touched_freed |-> FALSE, freed_twice |-> FALSE,
           freed_foreign |-> FALSE]

\* The memory behind the two handles: "none" before create, "live", "freed"
\* after destroy; ring keeps what the memory of the slot ring held last.
\* heap gives, for each block malloc returned to a write on the ring, the
\* number of times free was called on it.
NoRings == [mem |-> "none", ring |-> NoRing, rb_mem |-> "none", crashed |-> FALSE,
            calls |-> 0, writes |-> 0, heap |-> << >>]

\* The slots of the ring that hold a payload of a kind.
SlotsHolding(ring, kind) == {i \in DOMAIN ring.slots : ring.slots[i].payload.kind = kind}

\* Line 174: the blocks after a write that returned ret.
HeapAfterWrite(heap, ring, ret) ==
    IF ret # 0 /\ SlotOf(ring, ret - 1).payload.kind = "heap"
    THEN (SlotOf(ring, ret - 1).payload.at :> 0) @@ heap
    ELSE heap

\* Lines 268-275: destroy keeps the payloads that lie in the payload pool.
FreedByDestroy(ring, slot) ==
    /\ slot.payload.kind # "null"
    /\ \/ ~ring.payload_pool
       \/ slot.payload.kind = "heap"
       \/ slot.payload.at >= ring.payload_pool_size

\* The blocks after the loop of destroy (lines 267-276).
HeapAfterDestroy(heap, ring) ==
    [b \in DOMAIN heap |->
        heap[b] + Cardinality({i \in SlotsHolding(ring, "heap") :
                                  /\ FreedByDestroy(ring, ring.slots[i])
                                  /\ ring.slots[i].payload.at = b})]

\* Line 273 called on a pointer into the payload pool, which malloc never
\* returned.
FreesForeign(ring) ==
    \E i \in SlotsHolding(ring, "pool") : FreedByDestroy(ring, ring.slots[i])

AInit ==
    /\ hapi = NoRings
    /\ hcall = NoCall

ApiFrame == UNCHANGED <<hvars, rbvars, cvars, poolvars, slotvars, burstvars, probevars>>

Called == hapi.calls < MaxRingCalls /\ ~hapi.crashed

ApiCreateRing(capacity, payloadSize) ==
    /\ Called
    /\ hapi.mem # "live"
    /\ \E alloc_ok \in BOOLEAN, pool_ok \in BOOLEAN :
         LET r == nativeCreateRing(capacity, payloadSize, alloc_ok, pool_ok)
         IN  /\ hapi' = IF r.ret = 0
                        THEN [hapi EXCEPT !.calls = @ + 1]
                        ELSE [hapi EXCEPT !.mem = "live", !.ring = r.ring, !.calls = @ + 1,
                                          !.heap = << >>]
             /\ hcall' = [NoCall EXCEPT !.op = "create", !.ret = r.ret,
                                        !.requested = capacity]
    /\ ApiFrame

ApiRingWrite(offset, length, timestampNs, flags, queue) ==
    /\ Called
    /\ hapi.mem = "live"
    /\ hapi.writes < MaxRingWrites
    /\ \E outcome \in {"ok", "no bytes", "no memory", "dies"} :
         LET r == nativeRingWrite(hapi.ring, offset, length, timestampNs, flags, queue,
                                  outcome # "no bytes", outcome # "no memory")
             trapped == /\ offset >= 0
                        /\ length >= 0
                        /\ JintOverflows(offset, length)
                        /\ outcome = "dies"
         IN  /\ hapi' = IF trapped
                        THEN [hapi EXCEPT !.calls = @ + 1, !.writes = @ + 1, !.crashed = TRUE]
                        ELSE [hapi EXCEPT !.ring = r.ring, !.calls = @ + 1, !.writes = @ + 1,
                                          !.crashed = r.overrun /\ outcome = "dies",
                                          !.heap = HeapAfterWrite(@, r.ring, r.ret)]
             /\ hcall' = [NoCall EXCEPT
                            !.op = "write",
                            !.ret = IF trapped THEN 0 ELSE r.ret,
                            !.changed = (~trapped /\ r.ring # hapi.ring),
                            !.was_empty = (hapi.ring.read_pos = hapi.ring.write_pos),
                            !.supplied = [bytes |-> BytesAt(offset, length),
                                          timestampNs |-> timestampNs, length |-> length,
                                          flags |-> flags, queue |-> queue]]
    /\ ApiFrame

ApiRingRead ==
    /\ Called
    /\ hapi.mem = "live"
    /\ LET r == nativeRingRead(hapi.ring)
       IN  /\ hapi' = [hapi EXCEPT !.ring = r.ring, !.calls = @ + 1]
           /\ hcall' = [NoCall EXCEPT
                          !.op = "read", !.ret = r.ret,
                          !.roundtrip = (hcall.op = "write" /\ hcall.ret # 0 /\ hcall.was_empty
                                         /\ r.ret # 0),
                          !.supplied = hcall.supplied,
                          !.got = IF r.ret = 0 THEN ZeroSlot ELSE SlotOf(hapi.ring, r.ret - 1)]
    /\ ApiFrame

\* nativeDestroyRing, lines 262-284.  On a handle already destroyed the
\* call reads ring->slots from freed memory and deletes the ring again;
\* what follows a double free is not defined, the process goes on or dies.
ApiDestroyRing ==
    /\ Called
    /\ \/ /\ hapi.mem = "none"
          /\ hapi' = [hapi EXCEPT !.calls = @ + 1]
          /\ hcall' = [NoCall EXCEPT !.op = "destroy"]
       \/ /\ hapi.mem = "live"
          /\ hapi' = [hapi EXCEPT !.mem = "freed", !.calls = @ + 1,
                                  !.heap = HeapAfterDestroy(@, hapi.ring)]
          /\ hcall' = [NoCall EXCEPT !.op = "destroy",
                                     !.freed_foreign = FreesForeign(hapi.ring)]
       \/ /\ hapi.mem = "freed"
          /\ \E survives \in BOOLEAN :
               hapi' = [hapi EXCEPT !.calls = @ + 1, !.crashed = ~survives]
          /\ hcall' = [NoCall EXCEPT !.op = "destroy", !.touched_freed = TRUE,
                                     !.freed_twice = TRUE]
    /\ ApiFrame

\* nativeCreateRingBuffer, lines 67-99, as far as the memory goes.
ApiCreateRingBuffer(capacity) ==
    /\ Called
    /\ hapi.rb_mem # "live"
    /\ \E alloc_ok \in BOOLEAN :
         LET ok == ~(capacity <= 0 \/ capacity > PerfMaxCapacity) /\ alloc_ok
         IN  /\ hapi' = [hapi EXCEPT !.rb_mem = IF ok THEN "live" ELSE @, !.calls = @ + 1]
             /\ hcall' = [NoCall EXCEPT !.op = "create_rb", !.ret = IF ok THEN 1 ELSE 0,
                                        !.requested = capacity]
    /\ ApiFrame

\* nativeDestroyRingBuffer, lines 382-394.  On a handle already destroyed
\* the call reads rb->data from freed memory and deletes rb again.
ApiDestroyRingBuffer ==
    /\ Called
    /\ \/ /\ hapi.rb_mem = "none"
          /\ hapi' = [hapi EXCEPT !.calls = @ + 1]
          /\ hcall' = [NoCall EXCEPT !.op = "destroy_rb"]
       \/ /\ hapi.rb_mem = "live"
          /\ hapi' = [hapi EXCEPT !.rb_mem = "freed", !.calls = @ + 1]
          /\ hcall' = [NoCall EXCEPT !.op = "destroy_rb"]
       \/ /\ hapi.rb_mem = "freed"
          /\ \E survives \in BOOLEAN :
               hapi' = [hapi EXCEPT !.calls = @ + 1, !.crashed = ~survives]
          /\ hcall' = [NoCall EXCEPT !.op = "destroy_rb", !.touched_freed = TRUE,
                                     !.freed_twice = TRUE]
    /\ ApiFrame

ApiNext ==
    \/ \E capacity \in CapacityArgs, payloadSize \in PayloadSizeArgs :
          ApiCreateRing(capacity, payloadSize)
    \/ \E offset \in OffsetArgs, length \in LengthArgs, timestampNs \in TimestampArgs,
          flags \in FlagsArgs, queue \in QueueArgs :
          ApiRingWrite(offset, length, timestampNs, flags, queue)
    \/ ApiRingRead
    \/ ApiDestroyRing
    \/ \E capacity \in PerfCapacityArgs : ApiCreateRingBuffer(capacity)
    \/ ApiDestroyRingBuffer

----------------------------------------------------------------------------
(* Crypto worker pool: hyper/hyper_crypto.cpp                              *)

\* Bounds of the crypto-pool model.
NumWorkers == 2              \* worker threads started by init_crypto_pool
NumJobAddrs == 2             \* heap addresses operator new can return for a CryptoJob
NumCryptoSlots == 2          \* ring slots a job can reference
MaxSubmits == 2              \* jobs accepted by submit
MaxClock == 1                \* clock ticks explored

Workers == 1 .. NumWorkers
JobAddrs == 1 .. NumJobAddrs
CryptoSlots == 1 .. NumCryptoSlots
NullPtr == 0
Timeouts == {-1, 0, 1}       \* timeoutMs arguments given to nativeWaitCrypto
OutputLens == {1}            \* outputLen arguments given to nativeSubmitCrypto
TimedOut == -1               \* nativeWaitCrypto's return value for a timeout

\* slot->payloadSize of the slots the jobs reference (slot s holds s bytes
\* until the producer writes the slot again).
SlotPayloadSize(slot) == cslots[slot]
PayloadLengths == {1, 3}     \* length arguments of the writes that reuse a slot

\* A heap cell: job fields, and as history the incarnation number of the
\* cell, the workers that wrote the output buffer of this incarnation and
\* the number of stores to its done flag.
FreeCell == [alloc |-> FALSE, slot |-> NullPtr, outputCap |-> 0, outputSize |-> 0,
             done |-> FALSE, gen |-> 0, writers |-> {}, doneStores |-> 0]

WorkerTop == [pc |-> "top", job |-> NullPtr, gen |-> 0, inputLen |-> 0]
SubmitIdle == [pc |-> "idle", job |-> NullPtr]
AwaitIdle == [pc |-> "idle", job |-> NullPtr, timeoutMs |-> 0, start |-> 0,
              result |-> 0, retClock |-> 0, returned |-> FALSE, inputLen |-> 0,
              overdue |-> FALSE]

\* init_crypto_pool: running = true, the workers are started.
CInit ==
    /\ cjobs = [a \in JobAddrs |-> FreeCell]
    /\ cqueue = << >>
    /\ crunning = TRUE
    /\ cworker = [w \in Workers |-> WorkerTop]
    /\ csubmit = SubmitIdle
    /\ cheld = {}
    /\ caw = AwaitIdle
    /\ cclock = 0
    /\ cuaf = FALSE
    /\ csubmits = 0
    /\ cslots = [slot \in CryptoSlots |-> slot]

\* uint64_t timeoutUs = static_cast<uint64_t>(timeoutMs) * 1000.
TimeoutUs(timeoutMs) == U64(timeoutMs * 1000)

\* crypto_worker, line 78: the loop condition.
WorkerLoop(w) ==
    /\ cworker[w].pc = "top"
    /\ cworker' = [cworker EXCEPT ![w].pc = IF crunning THEN "lock" ELSE "exit"]
    /\ UNCHANGED <<cjobs, cqueue, crunning, csubmit, cheld, caw, cclock, cuaf, csubmits>>
    /\ CryptoFrame

\* crypto_worker, lines 81-95: under queueMutex, wait for the predicate and
\* take the front job.  A worker whose predicate is false is parked on
\* queueCond until a notify moves it back to "lock".
WorkerTake(w) ==
    /\ cworker[w].pc = "lock"
    /\ IF cqueue = << >> /\ crunning
       THEN /\ cworker' = [cworker EXCEPT ![w].pc = "wait"]
            /\ UNCHANGED cqueue
       ELSE IF ~crunning
       THEN /\ cworker' = [cworker EXCEPT ![w].pc = "exit"]
            /\ UNCHANGED cqueue
       ELSE /\ cworker' = [cworker EXCEPT ![w] = [pc |-> "process", job |-> Head(cqueue).addr,
                                                  gen |-> Head(cqueue).gen, inputLen |-> 0]]
            /\ cqueue' = Tail(cqueue)
    /\ UNCHANGED <<cjobs, crunning, csubmit, cheld, caw, cclock, cuaf, csubmits>>
    /\ CryptoFrame

\* The job a worker holds a pointer to was freed (its cell is free or holds a
\* later incarnation).
Dangling(w) ==
    \/ ~cjobs[cworker[w].job].alloc
    \/ cjobs[cworker[w].job].gen # cworker[w].gen

\* crypto_worker, lines 97-135: read job->slot, XOR slot->payloadSize bytes
\* of the payload into job->output, set job->outputSize.  A read of job->slot
\* from a freed cell yields any pointer value; a null one skips the job.
WorkerProcess(w) ==
    /\ cworker[w].pc = "process"
    /\ LET a == cworker[w].job
       IN  \E slot \in (IF cjobs[a].alloc THEN {cjobs[a].slot} ELSE CryptoSlots \cup {NullPtr}) :
             /\ cuaf' = (cuaf \/ Dangling(w))
             /\ IF slot = NullPtr
                THEN /\ cworker' = [cworker EXCEPT ![w] = WorkerTop]
                     /\ UNCHANGED cjobs
                ELSE /\ cworker' = [cworker EXCEPT ![w].pc = "publish",
                                                   ![w].inputLen = SlotPayloadSize(slot)]
                     /\ cjobs' = IF cjobs[a].alloc
                                 THEN [cjobs EXCEPT ![a].outputSize = SlotPayloadSize(slot),
                                                    ![a].writers = @ \cup {w}]
                                 ELSE cjobs
    /\ UNCHANGED <<cqueue, crunning, csubmit, cheld, caw, cclock, csubmits>>
    /\ CryptoFrame

\* crypto_worker, line 137: job->done.store(true).
WorkerPublish(w) ==
    /\ cworker[w].pc = "publish"
    /\ LET a == cworker[w].job
       IN  /\ cuaf' = (cuaf \/ Dangling(w))
           /\ cjobs' = IF cjobs[a].alloc
                       THEN [cjobs EXCEPT ![a].done = TRUE, ![a].doneStores = @ + 1]
                       ELSE cjobs
    /\ cworker' = [cworker EXCEPT ![w] = WorkerTop]
    /\ UNCHANGED <<cqueue, crunning, csubmit, cheld, caw, cclock, csubmits>>
    /\ CryptoFrame

\* nativeSubmitCrypto, lines 184-219: create the job in a free heap cell (any
\* free cell, also one a freed job occupied), size its output buffer, push it.
SubmitCreate(a, slot, outputLen) ==
    /\ csubmit.pc = "idle"
    /\ csubmits < MaxSubmits
    /\ crunning
    /\ ~cjobs[a].alloc
    /\ cjobs' = [cjobs EXCEPT ![a] =
                   [alloc |-> TRUE, slot |-> slot,
                    outputCap |-> IF outputLen < SlotPayloadSize(slot)
                                  THEN SlotPayloadSize(slot) ELSE outputLen,
                    outputSize |-> 0, done |-> FALSE, gen |-> cjobs[a].gen + 1,
                    writers |-> {}, doneStores |-> 0]]
    /\ cqueue' = Append(cqueue, [addr |-> a, gen |-> cjobs[a].gen + 1])
    /\ csubmit' = [pc |-> "notify", job |-> a]
    /\ csubmits' = csubmits + 1
    /\ UNCHANGED <<crunning, cworker, cheld, caw, cclock, cuaf>>
    /\ CryptoFrame

\* nativeSubmitCrypto, lines 220-223: notify_one wakes one parked worker if
\* there is one; the job handle goes to the caller.
SubmitNotify ==
    /\ csubmit.pc = "notify"
    /\ \/ /\ \A w \in Workers : cworker[w].pc # "wait"
          /\ UNCHANGED cworker
       \/ \E w \in Workers :
            /\ cworker[w].pc = "wait"
            /\ cworker' = [cworker EXCEPT ![w].pc = "lock"]
    /\ cheld' = cheld \cup {csubmit.job}
    /\ csubmit' = SubmitIdle
    /\ UNCHANGED <<cjobs, cqueue, crunning, caw, cclock, cuaf, csubmits>>
    /\ CryptoFrame

\* nativeWaitCrypto, lines 235-241: entry.
AwaitCall(a, timeoutMs) ==
    /\ caw.pc = "idle"
    /\ a \in cheld
    /\ caw' = [pc |-> "spin", job |-> a, timeoutMs |-> timeoutMs, start |-> cclock,
               result |-> 0, retClock |-> 0, returned |-> FALSE,
               inputLen |-> SlotPayloadSize(cjobs[a].slot), overdue |-> FALSE]
    /\ UNCHANGED <<cjobs, cqueue, crunning, cworker, csubmit, cheld, cclock, cuaf, csubmits>>
    /\ CryptoFrame

\* The deadline of the await in progress: its start plus the timeout.
AwaitDeadline == caw.start + (IF caw.timeoutMs > 0 THEN caw.timeoutMs ELSE 0)

\* nativeWaitCrypto, lines 243-250: one evaluation of the loop.  The loop is
\* left when done is set, or at once when timeoutUs > 0; no clock is read.
\* The history notes an evaluation that goes on waiting past the deadline.
AwaitSpin ==
    /\ caw.pc = "spin"
    /\ IF cjobs[caw.job].done \/ TimeoutUs(caw.timeoutMs) > 0
       THEN caw' = [caw EXCEPT !.pc = "check"]
       ELSE caw' = [caw EXCEPT !.overdue = @ \/ cclock > AwaitDeadline]
    /\ UNCHANGED <<cjobs, cqueue, crunning, cworker, csubmit, cheld, cclock, cuaf, csubmits>>
    /\ CryptoFrame

\* nativeWaitCrypto, lines 252-256: outputSize if done is set, else -1.
AwaitReturn ==
    /\ caw.pc = "check"
    /\ caw' = [caw EXCEPT !.pc = "idle", !.returned = TRUE, !.retClock = cclock,
                          !.result = IF cjobs[caw.job].done
                                     THEN cjobs[caw.job].outputSize ELSE TimedOut]
    /\ UNCHANGED <<cjobs, cqueue, crunning, cworker, csubmit, cheld, cclock, cuaf, csubmits>>
    /\ CryptoFrame

\* nativeFreeCryptoJob: free the output buffer and the job, whatever the
\* workers are doing with it.
FreeCryptoJob(a) ==
    /\ caw.pc = "idle"
    /\ a \in cheld
    /\ cheld' = cheld \ {a}
    /\ cjobs' = [cjobs EXCEPT ![a] = [FreeCell EXCEPT !.gen = cjobs[a].gen]]
    /\ caw' = [caw EXCEPT !.returned = FALSE]
    /\ UNCHANGED <<cqueue, crunning, cworker, csubmit, cclock, cuaf, csubmits>>
    /\ CryptoFrame

\* Time passes.
Tick ==
    /\ cclock < MaxClock
    /\ cclock' = cclock + 1
    /\ UNCHANGED <<cjobs, cqueue, crunning, cworker, csubmit, cheld, caw, cuaf, csubmits>>
    /\ CryptoFrame

\* The pool marks itself not running and broadcasts on queueCond, as the
\* specification describes the start of a shutdown: every parked worker is
\* woken.  hyper_crypto.cpp has no statement that stores false to running.
MarkNotRunning ==
    /\ crunning
    /\ crunning' = FALSE
    /\ cworker' = [w \in Workers |->
                     IF cworker[w].pc = "wait" THEN [cworker[w] EXCEPT !.pc = "lock"]
                     ELSE cworker[w]]
    /\ UNCHANGED <<cjobs, cqueue, csubmit, cheld, caw, cclock, cuaf, csubmits>>
    /\ CryptoFrame

\* nativeRingWrite on a slot a job may reference (hyper_ring.cpp, lines 170
\* and 178): the producer stores the length of the new payload.
ProducerRewrite(slot, length) ==
    /\ cslots' = [cslots EXCEPT ![slot] = length]
    /\ UNCHANGED <<hvars, rbvars, cvars, poolvars, apivars, burstvars, probevars>>

CNext ==
    \/ \E w \in Workers : WorkerLoop(w)
    \/ \E w \in Workers : WorkerTake(w)
    \/ \E w \in Workers : WorkerProcess(w)
    \/ \E w \in Workers : WorkerPublish(w)
    \/ \E a \in JobAddrs, slot \in CryptoSlots, outputLen \in OutputLens :
          SubmitCreate(a, slot, outputLen)
    \/ SubmitNotify
    \/ \E a \in JobAddrs, timeoutMs \in Timeouts : AwaitCall(a, timeoutMs)
    \/ AwaitSpin
    \/ AwaitReturn
    \/ \E a \in JobAddrs : FreeCryptoJob(a)
    \/ Tick

----------------------------------------------------------------------------
(* Connection pool: perf_connection_pool.cpp                               *)

MAX_POOL_SIZE == 16
MIN_POOL_SIZE == 4
NumPoolTypes == 3            \* g_pools[3]: H2_STREAM, VISION, RESERVE

\* Bounds of the connection-pool model.
NumCallers == 2              \* threads that acquire and release sockets
NumFds == 2                  \* fd numbers the kernel hands out for sockets
MaxHeld == 1                 \* sockets a caller holds before it releases one
MaxOpened == 3               \* sockets created for one pool type, where they are counted
FirstFd == 3                 \* the lowest of them
PoolSizeArgs == {3, 5}       \* pool_size_per_type arguments given to init
MaxInitArg == 18             \* the largest argument of the single-threaded calls
InitSizeArgs == (0 - 1) .. MaxInitArg

Callers == 1 .. NumCallers
Fds == FirstFd .. FirstFd + NumFds - 1
PoolTypes == 0 .. NumPoolTypes - 1
PoolTypeArgs == 0 .. NumPoolTypes      \* pool_type arguments, one of them invalid
NoFd == -1

\* Lines 71-95: clamp the size, split it 40/35/25, at least one slot each.
ClampPoolSize(pool_size_per_type) ==
    IF pool_size_per_type < MIN_POOL_SIZE THEN MIN_POOL_SIZE
    ELSE IF pool_size_per_type > MAX_POOL_SIZE THEN MAX_POOL_SIZE
    ELSE pool_size_per_type

AtLeastOne(n) == IF n < 1 THEN 1 ELSE n

\* The three shares each rounded down.
PoolSizesTruncated(pool_size_per_type) ==
    LET pool_size    == ClampPoolSize(pool_size_per_type)
        h2_size      == (pool_size * 40) \div 100
        vision_size  == (pool_size * 35) \div 100
        reserve_size == (pool_size * 25) \div 100
    IN  <<AtLeastOne(h2_size), AtLeastOne(vision_size), AtLeastOne(reserve_size)>>

PoolSizes(pool_size_per_type) ==
    LET pool_size    == ClampPoolSize(pool_size_per_type)
        h2_size      == (pool_size * 40 + 50) \div 100
        vision_size  == (pool_size * 35 + 50) \div 100
        reserve_size == pool_size - h2_size - vision_size
    IN  <<AtLeastOne(h2_size), AtLeastOne(vision_size), AtLeastOne(reserve_size)>>

\* Endpoints given to connect.  Host 0 is a string inet_pton rejects (the
\* empty remote_addr of a fresh slot is one); the others are IPv4 addresses.
NumHosts == 2
NumPorts == 1
NoHost == 0
HostArgs == 0 .. NumHosts
PortArgs == 1 .. NumPorts

\* Kernel state of a socket: fresh, connect in progress, established, shut down.
NoPeer == [st |-> "none", host |-> NoHost, port |-> 0]
ShutPeer == [st |-> "shut", host |-> NoHost, port |-> 0]
Peer(st, host, port) == [st |-> st, host |-> host, port |-> port]

\* Lines 111-116: a slot as init leaves it (resize value-initialises the rest).
FreshSlot == [fd |-> NoFd, in_use |-> FALSE, connected |-> FALSE,
              remote_addr |-> NoHost, remote_port |-> 0]

\* Static initialisation of g_pools: no slots, not initialized.
EmptyPool == [slots |-> << >>, initialized |-> FALSE]

\* The threads of init and destroy.  closed counts the close() calls of the
\* running call and last those of the latest finished one, in the behaviours
\* that record them.
PoolInitIdle == [pc |-> "idle", idx |-> 0, sizes |-> <<0, 0, 0>>, pool_size_per_type |-> 0,
                 closed |-> 0]
PoolDestroyIdle == [pc |-> "idle", idx |-> 0, closed |-> 0, last |-> 0]
NoAcquire == [granted |-> FALSE, exhausted |-> FALSE]
NoConnect == [switch |-> FALSE, shut |-> FALSE, outcome |-> "none", ret |-> 0, marked |-> FALSE]
NoneOpened == [ever |-> 0, kept |-> 0, fds |-> {}]
NoRelease == [probe |-> "none", class |-> 0, idx |-> 0, fd |-> NoFd, shape |-> TRUE,
              next |-> "none", same |-> FALSE]

PInit ==
    /\ pools = [c \in PoolTypes |-> EmptyPool]
    /\ kopen = {}
    /\ kbroken = {}
    /\ pinitTh = PoolInitIdle
    /\ pdestTh = PoolDestroyIdle
    /\ pheld = [t \in Callers |-> {}]
    /\ pcloses = [fd \in Fds |-> 0]
    /\ pacq = NoAcquire
    /\ kconn = [fd \in Fds |-> NoPeer]
    /\ pconn = NoConnect
    /\ prel = NoRelease
    /\ popened = [c \in PoolTypes |-> NoneOpened]
    /\ pghost = {"held", "closes"}

\* The slot vector as a function on 0 .. size-1.
SlotIndices(pool) == 0 .. Len(pool.slots) - 1
SlotAt(pool, i) == pool.slots[i + 1]

\* The fds of the slots of a pool that are >= 0: those init and destroy close.
OpenFdsOf(pool) == {SlotAt(pool, i).fd : i \in {j \in SlotIndices(pool) : SlotAt(pool, j).fd >= 0}}

\* socket() at line 161 returned fd for pool type pool_type, counted in the
\* behaviours that record it: one more socket created, one more stored in a
\* slot if line 205 is reached, and the fd number belongs to that pool type
\* from now on if it is.
Opened(pool_type, fd, kept) ==
    popened' = IF "opened" \in pghost
               THEN [c \in PoolTypes |->
                        IF c = pool_type
                        THEN [ever |-> popened[c].ever + 1,
                              kept |-> IF kept THEN popened[c].kept + 1 ELSE popened[c].kept,
                              fds  |-> IF kept THEN popened[c].fds \cup {fd} ELSE popened[c].fds]
                        ELSE [popened[c] EXCEPT !.fds = IF kept THEN @ \ {fd} ELSE @]]
               ELSE popened

\* The fds created for pool type c that are open now.
OpenNow(c) == popened[c].fds \cap kopen

\* A close that does nothing.
CloseNone(fds) == UNCHANGED <<kopen, kbroken, pcloses, kconn>>

\* close(fd) of one or several fds by the pool.
CloseAll(fds) ==
    /\ kopen' = kopen \ fds
    /\ kbroken' = kbroken \ fds
    /\ pcloses' = [fd \in Fds |-> IF fd \in fds /\ "closes" \in pghost
                                  THEN pcloses[fd] + 1 ELSE pcloses[fd]]
    /\ kconn' = [fd \in Fds |-> IF fd \in fds THEN NoPeer ELSE kconn[fd]]

\* The close() calls a turn of init or destroy on pool c adds to count.
ClosedWith(count, c) ==
    IF "life" \in pghost THEN count + Cardinality(OpenFdsOf(pools[c])) ELSE 0

\* A turn of init that rebuilds the slot vector and closes nothing.
ResetPoolKeepOpen(c, n) ==
    /\ CloseNone(OpenFdsOf(pools[c]))
    /\ UNCHANGED popened
    /\ pools' = [pools EXCEPT ![c] = [slots |-> [i \in 1 .. n |-> FreshSlot],
                                      initialized |-> TRUE]]

\* One turn of the loop of init (lines 97-120) on pool c with n slots, under
\* the mutex of that pool: close the fds, rebuild the slot vector.
ResetPool(c, n) ==
    /\ CloseAll(OpenFdsOf(pools[c]))
    /\ UNCHANGED popened
    /\ pools' = [pools EXCEPT ![c] = [slots |-> [i \in 1 .. n |-> FreshSlot],
                                      initialized |-> TRUE]]

\* nativeInitConnectionPool, lines 71-120: the sizes are computed (locals of
\* the thread), then the first pool is reset.
InitConnectionPoolBegin(pool_size_per_type) ==
    /\ pinitTh.pc = "idle"
    /\ ResetPool(0, PoolSizes(pool_size_per_type)[1])
    /\ pinitTh' = [pc |-> "run", idx |-> 1, sizes |-> PoolSizes(pool_size_per_type),
                    pool_size_per_type |-> pool_size_per_type,
                    closed |-> ClosedWith(0, 0)]
    /\ UNCHANGED <<pdestTh, pheld, pacq, pconn, prel, pghost>>
    /\ PoolFrame

\* nativeInitConnectionPool, lines 97-120: the later turns of the loop.
InitConnectionPoolStep ==
    /\ pinitTh.pc = "run"
    /\ ResetPool(pinitTh.idx, pinitTh.sizes[pinitTh.idx + 1])
    /\ pinitTh' = IF pinitTh.idx + 1 = NumPoolTypes THEN PoolInitIdle
                  ELSE [pinitTh EXCEPT !.idx = pinitTh.idx + 1,
                                       !.closed = ClosedWith(pinitTh.closed, pinitTh.idx)]
    /\ UNCHANGED <<pdestTh, pheld, pacq, pconn, prel, pghost>>
    /\ PoolFrame

\* A turn of destroy that empties the pool and closes nothing.
ClearPoolKeepOpen(c) ==
    /\ CloseNone(OpenFdsOf(pools[c]))
    /\ UNCHANGED popened
    /\ pools' = [pools EXCEPT ![c] = EmptyPool]

\* One turn of the loop of destroy (lines 549-563) on pool c.
ClearPool(c) ==
    /\ CloseAll(OpenFdsOf(pools[c]))
    /\ UNCHANGED popened
    /\ pools' = [pools EXCEPT ![c] = EmptyPool]

\* nativeDestroyConnectionPool: the first turn of the loop.
DestroyConnectionPoolBegin ==
    /\ pdestTh.pc = "idle"
    /\ ClearPool(0)
    /\ pdestTh' = [pc |-> "run", idx |-> 1, closed |-> ClosedWith(0, 0), last |-> pdestTh.last]
    /\ UNCHANGED <<pinitTh, pheld, pacq, pconn, prel, pghost>>
    /\ PoolFrame

\* nativeDestroyConnectionPool: the later turns of the loop.
DestroyConnectionPoolStep ==
    /\ pdestTh.pc = "run"
    /\ ClearPool(pdestTh.idx)
    /\ pdestTh' = IF pdestTh.idx + 1 = NumPoolTypes
                  THEN [PoolDestroyIdle EXCEPT !.last = ClosedWith(pdestTh.closed, pdestTh.idx)]
                  ELSE [pdestTh EXCEPT !.idx = pdestTh.idx + 1,
                                       !.closed = ClosedWith(pdestTh.closed, pdestTh.idx)]
    /\ UNCHANGED <<pinitTh, pheld, pacq, pconn, prel, pghost>>
    /\ PoolFrame

\* An acquire that would not look at in_use.
SlotAvailableIgnoringInUse(slot) == TRUE

\* Line 158: a slot acquire may hand out.
SlotAvailable(slot) == ~slot.in_use

\* The first available slot, as the loop of lines 157-216 finds it.
FirstAvailable(pool) ==
    LET free == {i \in SlotIndices(pool) : SlotAvailable(SlotAt(pool, i))}
    IN  IF free = {} THEN -1 ELSE CHOOSE i \in free : \A j \in free : i <= j

\* findSlotIndexByFd.
findSlotIndexByFd(pool, fd) ==
    LET found == {i \in SlotIndices(pool) : SlotAt(pool, i).fd = fd}
    IN  IF found = {} THEN -1 ELSE CHOOSE i \in found : \A j \in found : i <= j

\* checkSocketHealth: getsockopt fails on an fd that is not open, and reports
\* the pending error of one that is.
checkSocketHealth(fd) == fd >= 0 /\ fd \in kopen /\ fd \notin kbroken

Handle(pool_type, i, fd) == [class |-> pool_type, idx |-> i, fd |-> fd]

\* The handles a caller holds after the acquire gave it slot i of the pool
\* with that fd (recorded in the behaviours that follow the callers).
Grant(t, pool_type, i, fd) ==
    pheld' = IF "held" \in pghost
             THEN [pheld EXCEPT ![t] = @ \cup {Handle(pool_type, i, fd)}]
             ELSE pheld

\* The history of an acquire call (recorded with the callers).
Acquired(granted, exhausted) ==
    pacq' = IF "held" \in pghost THEN [granted |-> granted, exhausted |-> exhausted]
            ELSE pacq

\* The history of the first acquire on the pool type of the last release:
\* it failed, created a socket ("new"), or returned an fd the slot had, the
\* released one ("same") or another ("other"); and was it the released slot.
AfterAcquire(pool_type, i, kind, fd) ==
    prel' = IF "rel" \in pghost /\ prel.probe # "none" /\ prel.next = "none"
               /\ prel.class = pool_type
            THEN [prel EXCEPT !.next = IF kind = "old"
                                       THEN (IF fd = prel.fd THEN "same" ELSE "other")
                                       ELSE kind,
                              !.same = (i = prel.idx),
                              !.idx = 0, !.fd = NoFd]
            ELSE prel

\* An acquire that would return without closing the socket fcntl failed on.
AbandonSocketOpen(fd) ==
    /\ kopen' = kopen \cup {fd}
    /\ pcloses' = [pcloses EXCEPT ![fd] = 0]

\* Lines 171 and 176: close(fd) on the socket just created, whose number is
\* free again.
AbandonSocket(fd) ==
    /\ kopen' = kopen
    /\ pcloses' = [pcloses EXCEPT ![fd] = IF "closes" \in pghost THEN 1 ELSE @]

\* nativeGetPooledSocket.  socket() fails or returns a number that is not
\* open; fcntl can fail on the new socket, which is then closed.
GetPooledSocket(t, pool_type) ==
    /\ "held" \in pghost => Cardinality(pheld[t]) < MaxHeld
    /\ ("opened" \in pghost /\ pool_type \in PoolTypes) => popened[pool_type].ever < MaxOpened
    /\ IF pool_type \notin PoolTypes
       THEN /\ Acquired(FALSE, FALSE)
            /\ UNCHANGED <<pools, kopen, kbroken, pheld, pcloses, prel, popened>>
       ELSE LET pool == pools[pool_type]
                i    == FirstAvailable(pool)
                full == \A j \in SlotIndices(pool) : SlotAt(pool, j).in_use
            IN  IF i < 0
                THEN /\ Acquired(FALSE, full)
                     /\ AfterAcquire(pool_type, i, "fail", NoFd)
                     /\ UNCHANGED <<pools, kopen, kbroken, pheld, pcloses, popened>>
                ELSE IF SlotAt(pool, i).fd < 0
                THEN \/ \* socket() fails
                        /\ Acquired(FALSE, full)
                        /\ AfterAcquire(pool_type, i, "fail", NoFd)
                        /\ UNCHANGED <<pools, kopen, kbroken, pheld, pcloses, popened>>
                     \/ \* socket() succeeds, fcntl fails: close(fd)
                        \E fd \in Fds \ kopen :
                          /\ AbandonSocket(fd)
                          /\ Acquired(FALSE, full)
                          /\ AfterAcquire(pool_type, i, "fail", NoFd)
                          /\ Opened(pool_type, fd, FALSE)
                          /\ UNCHANGED <<pools, kbroken, pheld>>
                     \/ \* the socket is created and configured
                        \E fd \in Fds \ kopen :
                          /\ kopen' = kopen \cup {fd}
                          /\ pcloses' = [pcloses EXCEPT ![fd] = 0]
                          /\ pools' = [pools EXCEPT ![pool_type].slots[i + 1].fd = fd,
                                                    ![pool_type].slots[i + 1].in_use = TRUE,
                                                    ![pool_type].slots[i + 1].connected = FALSE]
                          /\ Grant(t, pool_type, i, fd)
                          /\ Acquired(fd >= 0, full)
                          /\ AfterAcquire(pool_type, i, "new", fd)
                          /\ Opened(pool_type, fd, TRUE)
                          /\ UNCHANGED kbroken
                ELSE /\ pools' = [pools EXCEPT ![pool_type].slots[i + 1].in_use = TRUE,
                                               ![pool_type].slots[i + 1].connected = FALSE]
                     /\ Grant(t, pool_type, i, SlotAt(pool, i).fd)
                     /\ Acquired(SlotAt(pool, i).fd >= 0, full)
                     /\ AfterAcquire(pool_type, i, "old", SlotAt(pool, i).fd)
                     /\ UNCHANGED <<kopen, kbroken, pcloses, popened>>
    /\ UNCHANGED <<pinitTh, pdestTh, kconn, pconn, pghost>>
    /\ PoolFrame

\* A release that would leave the closed fd in the slot.
CompareAndSwapFdNoStore(slot, expected, desired) == slot

\* __sync_val_compare_and_swap(&slot->fd, expected, desired): the slot after it.
CompareAndSwapFd(slot, expected, desired) ==
    [slot EXCEPT !.fd = IF slot.fd = expected THEN desired ELSE slot.fd]

\* A release that would forget to clear connected.
MarkDroppedKeepConnected(slot) == [slot EXCEPT !.in_use = FALSE]

\* Lines 474-475 and 526-527: the slot whose socket was found broken.
MarkDropped(slot) == [slot EXCEPT !.connected = FALSE, !.in_use = FALSE]

\* A release that would skip the liveness probe.
ReleaseSlotNoProbe(slot) == [slot |-> [slot EXCEPT !.in_use = FALSE], closed |-> NoFd]

\* Lines 462-485 and 510-539: what a release does to the slot it found.  The
\* result is the slot afterwards and the fd it closes (NoFd if none).
ReleaseSlot(slot) ==
    LET expected_fd == slot.fd
    IN  IF expected_fd < 0
        THEN [slot |-> [slot EXCEPT !.in_use = FALSE], closed |-> NoFd]
        ELSE IF ~checkSocketHealth(slot.fd)
        THEN LET swapped == CompareAndSwapFd(slot, expected_fd, NoFd)
             IN  [slot |-> MarkDropped(swapped), closed |-> expected_fd]
        ELSE [slot |-> [slot EXCEPT !.in_use = FALSE], closed |-> NoFd]

\* The history of a release that found slot i: what the liveness probe said
\* and whether the slot and the fd were left as lines 462-485 intend.
Released(pool_type, i) ==
    LET before == SlotAt(pools[pool_type], i)
        r      == ReleaseSlot(before)
        probe  == IF before.fd < 0 THEN "nofd"
                  ELSE IF checkSocketHealth(before.fd) THEN "healthy" ELSE "broken"
        shape  == IF probe = "broken"
                  THEN /\ r.slot.fd < 0
                       /\ r.closed = before.fd
                       /\ ~r.slot.connected
                       /\ ~r.slot.in_use
                  ELSE IF probe = "healthy"
                  THEN r.slot = [before EXCEPT !.in_use = FALSE] /\ r.closed = NoFd
                  ELSE TRUE
    IN  prel' = IF "rel" \in pghost
                THEN [probe |-> probe, class |-> pool_type, idx |-> i, fd |-> before.fd,
                      shape |-> shape, next |-> "none", same |-> FALSE]
                ELSE prel

ApplyRelease(pool_type, i) ==
    LET r == ReleaseSlot(SlotAt(pools[pool_type], i))
    IN  /\ pools' = [pools EXCEPT ![pool_type].slots[i + 1] = r.slot]
        /\ IF r.closed = NoFd
           THEN UNCHANGED <<kopen, kbroken, pcloses, kconn>>
           ELSE CloseAll({r.closed})
        /\ UNCHANGED popened
        /\ Released(pool_type, i)

\* nativeReturnPooledSocket: release by slot index.  The caller gives up the
\* handles it has for that slot.
ReturnPooledSocket(t, pool_type, slot_index) ==
    /\ IF pool_type \in PoolTypes /\ slot_index \in SlotIndices(pools[pool_type])
       THEN ApplyRelease(pool_type, slot_index)
       ELSE UNCHANGED <<pools, kopen, kbroken, pcloses, kconn, popened, prel>>
    /\ pheld' = [pheld EXCEPT ![t] =
                   {h \in @ : ~(h.class = pool_type /\ h.idx = slot_index)}]
    /\ UNCHANGED <<pinitTh, pdestTh, pacq, pconn, pghost>>
    /\ PoolFrame

\* nativeReturnPooledSocketByFd: release by fd.
ReturnPooledSocketByFd(t, pool_type, fd) ==
    /\ IF pool_type \in PoolTypes /\ fd >= 0 /\ findSlotIndexByFd(pools[pool_type], fd) >= 0
       THEN ApplyRelease(pool_type, findSlotIndexByFd(pools[pool_type], fd))
       ELSE UNCHANGED <<pools, kopen, kbroken, pcloses, kconn, popened, prel>>
    /\ pheld' = [pheld EXCEPT ![t] = {h \in @ : ~(h.class = pool_type /\ h.fd = fd)}]
    /\ UNCHANGED <<pinitTh, pdestTh, pacq, pconn, pghost>>
    /\ PoolFrame

\* What connect() can return on a non-blocking socket in that kernel state:
\* 0, EINPROGRESS or another error.  A socket that is connected or connecting
\* gives EISCONN / EALREADY; what a socket gives after shutdown depends on the
\* platform.
ConnectResults(peer) ==
    IF peer.st \in {"est", "syn"} THEN {"error"} ELSE {"ok", "inprogress", "error"}

PeerAfterConnect(peer, result, host, port) ==
    IF result = "ok" THEN Peer("est", host, port)
    ELSE IF result = "inprogress" THEN Peer("syn", host, port)
    ELSE peer

\* shutdown(fd, SHUT_RDWR).
PeerAfterShutdown(peer) == IF peer.st = "est" THEN ShutPeer ELSE peer

\* Lines 285-288: connect by index disconnects a slot marked connected.
ShutdownBeforeConnect(slot) == slot.connected

\* Lines 302-328: the slot after connect() returned.
SlotAfterConnect(slot, result, host, port) ==
    IF result = "ok"
    THEN [slot EXCEPT !.remote_addr = host, !.connected = TRUE, !.remote_port = port]
    ELSE IF result = "inprogress"
    THEN [slot EXCEPT !.remote_addr = host, !.connected = FALSE, !.remote_port = port]
    ELSE [slot EXCEPT !.remote_addr = host]

\* Lines 384-402: the same for connect by fd, which leaves connected alone
\* when the connection is in progress.
SlotAfterConnectByFd(slot, result, host, port) ==
    IF result = "ok"
    THEN [slot EXCEPT !.remote_addr = host, !.connected = TRUE, !.remote_port = port]
    ELSE IF result = "inprogress"
    THEN [slot EXCEPT !.remote_addr = host, !.remote_port = port]
    ELSE [slot EXCEPT !.remote_addr = host]

\* The history of a connect call that reached connect(): did the socket have
\* an established connection to another endpoint when the call came in, and
\* was it shut down first.
ConnectRecord(peer, host, port, shut) ==
    [pconn EXCEPT !.switch = peer.st = "est" /\ (peer.host # host \/ peer.port # port),
                  !.shut = shut]

\* The value a connect call returns: 0 at lines 282, 312 and 319 (387 and 399
\* by fd), -1 at every other return.
ConnectReturn(outcome) == IF outcome \in {"reuse", "ok", "inprogress"} THEN 0 ELSE -1

\* The history of a connect call, in the behaviours that record it: how it
\* ended, what it returned, and whether the slot it was given is marked
\* connected when it returns.
ConnectReturned(rec, outcome, marked) ==
    IF "ret" \in pghost
    THEN [rec EXCEPT !.outcome = outcome, !.ret = ConnectReturn(outcome), !.marked = marked]
    ELSE rec

\* nativeConnectPooledSocket: connect by slot index.
ConnectPooledSocket(pool_type, slot_index, host, port) ==
    /\ IF \/ pool_type \notin PoolTypes
          \/ slot_index \notin SlotIndices(pools[pool_type])
       THEN /\ UNCHANGED <<pools, kconn>>
            /\ pconn' = ConnectReturned(pconn, "reject", FALSE)
       ELSE LET slot == SlotAt(pools[pool_type], slot_index)
                shut == ShutdownBeforeConnect(slot)
                peer == IF shut THEN PeerAfterShutdown(kconn[slot.fd]) ELSE kconn[slot.fd]
                down == IF shut THEN [slot EXCEPT !.connected = FALSE] ELSE slot
            IN  IF slot.fd < 0 \/ ~slot.in_use
                THEN /\ UNCHANGED <<pools, kconn>>
                     /\ pconn' = ConnectReturned(pconn, "reject", FALSE)
                ELSE IF slot.connected /\ slot.remote_addr = host /\ slot.remote_port = port
                THEN /\ UNCHANGED <<pools, kconn>>
                     /\ pconn' = ConnectReturned(pconn, "reuse", slot.connected)
                ELSE IF host = NoHost
                THEN /\ pools' = [pools EXCEPT ![pool_type].slots[slot_index + 1] = down]
                     /\ kconn' = [kconn EXCEPT ![slot.fd] = peer]
                     /\ pconn' = ConnectReturned(pconn, "badhost", down.connected)
                ELSE \E result \in ConnectResults(peer) :
                       /\ pools' = [pools EXCEPT ![pool_type].slots[slot_index + 1] =
                                      SlotAfterConnect(down, result, host, port)]
                       /\ kconn' = [kconn EXCEPT ![slot.fd] =
                                      PeerAfterConnect(peer, result, host, port)]
                       /\ pconn' = ConnectReturned(ConnectRecord(kconn[slot.fd], host, port, shut),
                                                   result,
                                                   SlotAfterConnect(down, result, host, port).connected)
    /\ UNCHANGED <<kopen, kbroken, pinitTh, pdestTh, pheld, pcloses, pacq, prel, popened, pghost>>
    /\ PoolFrame

\* nativeConnectPooledSocketByFd: connect by fd.
ConnectPooledSocketByFd(pool_type, fd, host, port) ==
    /\ IF \/ pool_type \notin PoolTypes
          \/ fd < 0
          \/ findSlotIndexByFd(pools[pool_type], fd) < 0
       THEN /\ UNCHANGED <<pools, kconn>>
            /\ pconn' = ConnectReturned(pconn, "reject", FALSE)
       ELSE LET slot_index == findSlotIndexByFd(pools[pool_type], fd)
                slot == SlotAt(pools[pool_type], slot_index)
            IN  IF ~slot.in_use
                THEN /\ UNCHANGED <<pools, kconn>>
                     /\ pconn' = ConnectReturned(pconn, "reject", FALSE)
                ELSE IF slot.connected /\ slot.remote_addr = host /\ slot.remote_port = port
                THEN /\ UNCHANGED <<pools, kconn>>
                     /\ pconn' = ConnectReturned(pconn, "reuse", slot.connected)
                ELSE IF host = NoHost
                THEN /\ UNCHANGED <<pools, kconn>>
                     /\ pconn' = ConnectReturned(pconn, "badhost", slot.connected)
                ELSE \E result \in ConnectResults(kconn[fd]) :
                       /\ pools' = [pools EXCEPT ![pool_type].slots[slot_index + 1] =
                                      SlotAfterConnectByFd(slot, result, host, port)]
                       /\ kconn' = [kconn EXCEPT ![fd] =
                                      PeerAfterConnect(kconn[fd], result, host, port)]
                       /\ pconn' = ConnectReturned(ConnectRecord(kconn[fd], host, port, FALSE),
                                                   result,
                                                   SlotAfterConnectByFd(slot, result, host, port).connected)
    /\ UNCHANGED <<kopen, kbroken, pinitTh, pdestTh, pheld, pcloses, pacq, prel, popened, pghost>>
    /\ PoolFrame

\* The three-way handshake of a connect in progress completes.
ConnectCompletes(fd) ==
    /\ fd \in kopen
    /\ kconn[fd].st = "syn"
    /\ kconn' = [kconn EXCEPT ![fd].st = "est"]
    /\ UNCHANGED <<pools, kopen, kbroken, pinitTh, pdestTh, pheld, pcloses, pacq, pconn, prel,
                   popened, pghost>>
    /\ PoolFrame

\* The peer resets a connection or an asynchronous connect fails: the socket
\* gets a pending error.
SocketError(fd) ==
    /\ fd \in kopen \ kbroken
    /\ kbroken' = kbroken \cup {fd}
    /\ UNCHANGED <<pools, kopen, pinitTh, pdestTh, pheld, pcloses, pacq, kconn, pconn, prel,
                   popened, pghost>>
    /\ PoolFrame

\* The caller that got fd from an acquire (line 214) closes it itself: the
\* number is free again for the next socket().
HolderClose(fd) ==
    /\ fd \in kopen
    /\ \E c \in PoolTypes : \E i \in SlotIndices(pools[c]) :
          SlotAt(pools[c], i).in_use /\ SlotAt(pools[c], i).fd = fd
    /\ kopen' = kopen \ {fd}
    /\ kbroken' = kbroken \ {fd}
    /\ kconn' = [kconn EXCEPT ![fd] = NoPeer]
    /\ UNCHANGED <<pools, pinitTh, pdestTh, pheld, pcloses, pacq, pconn, prel, popened, pghost>>
    /\ PoolFrame

\* A caller releases a slot it holds, by index or by fd.
Holds(t, pool_type, i) == \E h \in pheld[t] : h.class = pool_type /\ h.idx = i
HoldsFd(t, pool_type, fd) == \E h \in pheld[t] : h.class = pool_type /\ h.fd = fd

HolderReturn(t, pool_type, slot_index) ==
    /\ Holds(t, pool_type, slot_index)
    /\ ReturnPooledSocket(t, pool_type, slot_index)

HolderReturnByFd(t, pool_type, fd) ==
    /\ HoldsFd(t, pool_type, fd)
    /\ ReturnPooledSocketByFd(t, pool_type, fd)

SlotIndexArgs == 0 .. 2

PoolNext ==
    \/ \E n \in PoolSizeArgs : InitConnectionPoolBegin(n)
    \/ InitConnectionPoolStep
    \/ DestroyConnectionPoolBegin
    \/ DestroyConnectionPoolStep
    \/ \E t \in Callers, pool_type \in PoolTypeArgs : GetPooledSocket(t, pool_type)
    \/ \E t \in Callers, pool_type \in PoolTypes, i \in SlotIndexArgs :
          ReturnPooledSocket(t, pool_type, i)
    \/ \E t \in Callers, pool_type \in PoolTypes, fd \in Fds :
          ReturnPooledSocketByFd(t, pool_type, fd)
    \/ \E fd \in Fds : SocketError(fd)

\* Acquire and release only, every release by the caller that holds the slot.
PoolAcqRelNext ==
    \/ \E t \in Callers, pool_type \in PoolTypeArgs : GetPooledSocket(t, pool_type)
    \/ \E t \in Callers, pool_type \in PoolTypes, i \in SlotIndexArgs :
          HolderReturn(t, pool_type, i)
    \/ \E t \in Callers, pool_type \in PoolTypes, fd \in Fds :
          HolderReturnByFd(t, pool_type, fd)
    \/ \E fd \in Fds : SocketError(fd)

\* The calls of the callers on the pools of one set of pool types, connect
\* included; the callers are not told apart.
FirstCaller == CHOOSE t \in Callers : \A u \in Callers : t <= u

CallerAcquire(types) == \E pool_type \in types : GetPooledSocket(FirstCaller, pool_type)

CallerReturn(types) ==
    \E pool_type \in types, i \in SlotIndexArgs : ReturnPooledSocket(FirstCaller, pool_type, i)

CallerReturnByFd(types) ==
    \E pool_type \in types, fd \in Fds : ReturnPooledSocketByFd(FirstCaller, pool_type, fd)

CallerConnect(types) ==
    \E pool_type \in types \cup {NumPoolTypes}, i \in SlotIndexArgs,
       host \in HostArgs, port \in PortArgs :
        ConnectPooledSocket(pool_type, i, host, port)

CallerConnectByFd(types) ==
    \E pool_type \in types \cup {NumPoolTypes}, fd \in Fds,
       host \in HostArgs, port \in PortArgs :
        ConnectPooledSocketByFd(pool_type, fd, host, port)

\* Acquire, connect and release on the first pool (the one with several
\* slots) of an initialized pool.
ConnPoolTypes == {0}

PoolConnNext ==
    \/ CallerAcquire(ConnPoolTypes)
    \/ CallerReturn(ConnPoolTypes)
    \/ CallerReturnByFd(ConnPoolTypes)
    \/ CallerConnect(ConnPoolTypes)
    \/ CallerConnectByFd(ConnPoolTypes)
    \/ \E fd \in Fds : ConnectCompletes(fd)
    \/ \E fd \in Fds : SocketError(fd)

\* Acquire, connect and release by index on the first pool.
PoolConnRetNext ==
    \/ CallerAcquire(ConnPoolTypes)
    \/ CallerReturn(ConnPoolTypes)
    \/ CallerConnect(ConnPoolTypes)
    \/ CallerConnectByFd(ConnPoolTypes)
    \/ \E fd \in Fds : ConnectCompletes(fd)

\* Acquire and release on the first pool by callers that may close the fd
\* they were given.
PoolExtNext ==
    \/ CallerAcquire(ConnPoolTypes)
    \/ CallerReturn(ConnPoolTypes)
    \/ CallerReturnByFd(ConnPoolTypes)
    \/ \E fd \in Fds : HolderClose(fd)
    \/ \E fd \in Fds : SocketError(fd)

\* Acquire, connect by index and release on the first pool.
PoolRelNext ==
    \/ CallerAcquire(ConnPoolTypes)
    \/ CallerReturn(ConnPoolTypes)
    \/ CallerReturnByFd(ConnPoolTypes)
    \/ CallerConnect(ConnPoolTypes)
    \/ \E fd \in Fds : SocketError(fd)

\* Every operation of the pool, init and destroy included, the callers
\* working on the last pool.
LifePoolTypes == {NumPoolTypes - 1}

PoolLifeNext ==
    \/ \E n \in PoolSizeArgs : InitConnectionPoolBegin(n)
    \/ InitConnectionPoolStep
    \/ DestroyConnectionPoolBegin
    \/ DestroyConnectionPoolStep
    \/ CallerAcquire(LifePoolTypes)
    \/ CallerReturn(LifePoolTypes)
    \/ CallerReturnByFd(LifePoolTypes)
    \/ CallerConnect(LifePoolTypes)
    \/ CallerConnectByFd(LifePoolTypes)
    \/ \E fd \in Fds : ConnectCompletes(fd)
    \/ \E fd \in Fds : SocketError(fd)

\* The calls of one thread: init and destroy run to their end before the next
\* call starts, and the sockets are acquired and returned between them.
Quiescent == pinitTh.pc = "idle" /\ pdestTh.pc = "idle"

SeqInit == Quiescent /\ \E n \in InitSizeArgs : InitConnectionPoolBegin(n)

SeqDestroy == Quiescent /\ DestroyConnectionPoolBegin

SeqAcquire == Quiescent /\ CallerAcquire(PoolTypes)

SeqReturn == Quiescent /\ CallerReturn(PoolTypes)

SeqSocketError == Quiescent /\ \E fd \in Fds : SocketError(fd)

PoolSeqNext ==
    \/ SeqInit
    \/ InitConnectionPoolStep
    \/ SeqDestroy
    \/ DestroyConnectionPoolStep
    \/ SeqAcquire
    \/ SeqReturn
    \/ SeqSocketError

\* The pool after a completed init(pool_size_per_type) on the static state.
PoolAfterInit(pool_size_per_type) ==
    [c \in PoolTypes |->
        [slots |-> [i \in 1 .. PoolSizes(pool_size_per_type)[c + 1] |-> FreshSlot],
         initialized |-> TRUE]]

----------------------------------------------------------------------------
(* The burst tracker (hyper_burst.hpp, hyper_burst.cpp).  Time is counted  *)
(* in milliseconds and rates in bytes per second; the doubles are          *)
(* integers, the division of the smoothing rounding down.                  *)

MaxBurstCalls == 4           \* calls made on the tracker
BurstTimeBits == 20          \* width of the timestamps (64 in the code)

BURST_NONE == 0
BURST_LOW == 1
BURST_MEDIUM == 2
BURST_HIGH == 3
BURST_EXTREME == 4

windowNs == 10               \* 10 ms
TicksPerSecond == 1000       \* the 1e9 of line 36, in milliseconds
AlphaTenths == 1             \* alpha = 0.1
ExtremeAbove == 100000000
HighAbove == 50000000
MediumAbove == 10000000
LowAbove == 1000000

BurstByteArgs == {0, 2750, 27500, 165000}
BurstTimeArgs == {0, 11, 22, 33}
BurstNowArgs == {0, 11}
BurstHintArgs == {0 - 1, 0, 4, 5}

\* timestampNs - tracker->windowStartNs in unsigned arithmetic.
BurstElapsed(timestampNs, windowStartNs) ==
    (timestampNs - windowStartNs + 2 ^ BurstTimeBits) % (2 ^ BurstTimeBits)

\* Lines 42-52: the level of a smoothed rate.
BurstLevelOf(currentBurst) ==
    IF currentBurst > ExtremeAbove THEN BURST_EXTREME
    ELSE IF currentBurst > HighAbove THEN BURST_HIGH
    ELSE IF currentBurst > MediumAbove THEN BURST_MEDIUM
    ELSE IF currentBurst > LowAbove THEN BURST_LOW
    ELSE BURST_NONE

\* Lines 35-36: bytes of the window over its length in seconds.
BurstIntensity(byteCount, elapsed) == (byteCount * TicksPerSecond) \div elapsed

\* Line 39: the smoothed rate after a window of that intensity.
BurstSmoothed(currentBurst, intensity) ==
    (AlphaTenths * intensity + (10 - AlphaTenths) * currentBurst) \div 10

\* update_burst_intensity with a level that only rises at a window's end.
update_burst_intensity_sticky(tracker, bytes, timestampNs) ==
    LET elapsed   == BurstElapsed(timestampNs, tracker.windowStartNs)
        intensity == BurstIntensity(tracker.byteCount, elapsed)
        smoothed  == BurstSmoothed(tracker.currentBurst, intensity)
        level     == IF tracker.level > BurstLevelOf(smoothed)
                     THEN tracker.level ELSE BurstLevelOf(smoothed)
        rolled    == IF elapsed > windowNs
                     THEN [tracker EXCEPT !.currentBurst = smoothed,
                                          !.level = level,
                                          !.packetCount = 0,
                                          !.byteCount = 0,
                                          !.windowStartNs = timestampNs]
                     ELSE tracker
    IN  [rolled EXCEPT !.packetCount = @ + 1, !.byteCount = @ + bytes]

\* update_burst_intensity.
update_burst_intensity(tracker, bytes, timestampNs) ==
    LET elapsed   == BurstElapsed(timestampNs, tracker.windowStartNs)
        intensity == BurstIntensity(tracker.byteCount, elapsed)
        smoothed  == BurstSmoothed(tracker.currentBurst, intensity)
        rolled    == IF elapsed > windowNs
                     THEN [tracker EXCEPT !.currentBurst = smoothed,
                                          !.level = BurstLevelOf(smoothed),
                                          !.packetCount = 0,
                                          !.byteCount = 0,
                                          !.windowStartNs = timestampNs]
                     ELSE tracker
    IN  [rolled EXCEPT !.packetCount = @ + 1, !.byteCount = @ + bytes]

\* The tracker as nativeInitBurst leaves it at time now, which is also the
\* zero-initialised static object at time 0.
FreshTracker(now) ==
    [currentBurst |-> 0, packetCount |-> 0, byteCount |-> 0, windowStartNs |-> now,
     level |-> BURST_NONE]

NoBurstCall == [op |-> "none", bytes |-> 0, timestampNs |-> 0, before |-> FreshTracker(0)]

\* The record of a call: its arguments and the tracker it found.
BurstCall(op, bytes, timestampNs) ==
    [op |-> op, bytes |-> bytes, timestampNs |-> timestampNs, before |-> g_burst_tracker]

BInit ==
    /\ g_burst_tracker = FreshTracker(0)
    /\ bwindows = << >>
    /\ bcalls = 0
    /\ blast = NoBurstCall

BurstFrame == UNCHANGED <<hvars, rbvars, cvars, poolvars, apivars, slotvars, probevars>>

\* nativeInitBurst.
InitBurst(now) ==
    /\ bcalls < MaxBurstCalls
    /\ g_burst_tracker' = FreshTracker(now)
    /\ bwindows' = << >>
    /\ bcalls' = bcalls + 1
    /\ blast' = BurstCall("init", 0, now)
    /\ BurstFrame

\* nativeUpdateBurst; the history takes the window the call closed, if any.
UpdateBurst(bytes, timestampNs) ==
    /\ bcalls < MaxBurstCalls
    /\ g_burst_tracker' = update_burst_intensity(g_burst_tracker, bytes, timestampNs)
    /\ LET elapsed == BurstElapsed(timestampNs, g_burst_tracker.windowStartNs)
       IN  bwindows' = IF elapsed > windowNs
                       THEN Append(bwindows,
                                   [elapsed  |-> elapsed,
                                    rate     |-> BurstIntensity(g_burst_tracker.byteCount, elapsed),
                                    level    |-> g_burst_tracker'.level,
                                    smoothed |-> g_burst_tracker'.currentBurst,
                                    was      |-> g_burst_tracker.level])
                       ELSE bwindows
    /\ bcalls' = bcalls + 1
    /\ blast' = BurstCall("update", bytes, timestampNs)
    /\ BurstFrame

\* nativeSubmitBurstHint, line 33.
SubmitBurstHint(level) ==
    /\ bcalls < MaxBurstCalls
    /\ g_burst_tracker' = [g_burst_tracker EXCEPT !.level = level]
    /\ bcalls' = bcalls + 1
    /\ blast' = BurstCall("hint", 0, 0)
    /\ UNCHANGED bwindows
    /\ BurstFrame

\* nativeGetBurstLevel.
GetBurstLevel == g_burst_tracker.level

BurstNext ==
    \/ \E now \in BurstNowArgs : InitBurst(now)
    \/ \E bytes \in BurstByteArgs, timestampNs \in BurstTimeArgs : UpdateBurst(bytes, timestampNs)
    \/ \E level \in BurstHintArgs : SubmitBurstHint(level)

----------------------------------------------------------------------------
(* The capability probes (perf_crypto_neon.cpp, hyper_cpu.cpp)             *)

NumProbeThreads == 2         \* threads that query the capabilities
MaxQueries == 2              \* queries of each kind a thread makes

ProbeThreads == 1 .. NumProbeThreads

CPU_CAP_NEON == 1
CPU_CAP_AES == 2

\* What the process runs on: the auxiliary vector reports AES ("auxv"), or
\* it does not and the feature line of /proc/cpuinfo names aes or pmull
\* ("features"), or neither ("plain").
Hardware == {"auxv", "features", "plain"}

\* The mask detect_cpu_caps computes (lines 50-68) on that hardware.
HardwareCaps(hw) == IF hw = "auxv" THEN BitOr(CPU_CAP_NEON, CPU_CAP_AES) ELSE CPU_CAP_NEON

ProbeIdle == [pc |-> "idle", val |-> FALSE, queries |-> 0, cap_queries |-> 0]
NoProbes == [detections |-> 0, cap_detections |-> 0, cached |-> "none", diverged |-> FALSE]

\* The statics of the two files before the first query, on given hardware.
QInitOn(hw) ==
    /\ g_crypto_cache = [cached |-> FALSE, available |-> FALSE]
    /\ g_cpu_caps = 0
    /\ g_caps_initialized = FALSE
    /\ qthread = [t \in ProbeThreads |-> ProbeIdle]
    /\ qhw = hw
    /\ qhist = NoProbes

QInit == QInitOn("auxv")

ProbeFrame == UNCHANGED <<hvars, rbvars, cvars, poolvars, apivars, slotvars, burstvars, qhw>>

\* The history after a query returned ret from the cache.
ReturnedCached(ret) ==
    [qhist EXCEPT !.diverged = @ \/ (qhist.cached # "none" /\ qhist.cached # ret)]

\* The history after a detection stored ret as the cached value.
Cached(ret) ==
    [qhist EXCEPT !.cached = IF @ = "none" THEN ret ELSE @,
                  !.diverged = @ \/ (qhist.cached # "none" /\ qhist.cached # ret)]

\* nativeHasCryptoExtensions, lines 66-68: the cached answer, or on to the
\* detection.
HasCryptoExtensions(t) ==
    /\ qthread[t].pc = "idle"
    /\ qthread[t].queries < MaxQueries
    /\ IF g_crypto_cache.cached
       THEN /\ qthread' = [qthread EXCEPT ![t].queries = @ + 1]
            /\ qhist' = ReturnedCached(IF g_crypto_cache.available THEN "yes" ELSE "no")
       ELSE /\ qthread' = [qthread EXCEPT ![t].pc = "detect", ![t].queries = @ + 1]
            /\ UNCHANGED qhist
    /\ UNCHANGED <<g_crypto_cache, g_cpu_caps, g_caps_initialized>>
    /\ ProbeFrame

\* Lines 71-119: the detection.  With AES in the auxiliary vector the answer
\* is yes; otherwise /proc/cpuinfo is opened, which may fail (line 82, the
\* call returns false and caches nothing), and scanned.
DetectCrypto(t) ==
    /\ qthread[t].pc = "detect"
    /\ qhist' = [qhist EXCEPT !.detections = @ + 1]
    /\ IF qhw = "auxv"
       THEN qthread' = [qthread EXCEPT ![t].pc = "store", ![t].val = TRUE]
       ELSE \E opened \in BOOLEAN :
              qthread' = IF opened
                         THEN [qthread EXCEPT ![t].pc = "store", ![t].val = (qhw = "features")]
                         ELSE [qthread EXCEPT ![t].pc = "idle"]
    /\ UNCHANGED <<g_crypto_cache, g_cpu_caps, g_caps_initialized>>
    /\ ProbeFrame

\* Lines 74 and 122: available.store.
StoreAvailable(t) ==
    /\ qthread[t].pc = "store"
    /\ g_crypto_cache' = [g_crypto_cache EXCEPT !.available = qthread[t].val]
    /\ qthread' = [qthread EXCEPT ![t].pc = "publish"]
    /\ UNCHANGED <<g_cpu_caps, g_caps_initialized, qhist>>
    /\ ProbeFrame

\* Lines 75-76 and 123-125: cached.store(true) and the return.
StoreCached(t) ==
    /\ qthread[t].pc = "publish"
    /\ g_crypto_cache' = [g_crypto_cache EXCEPT !.cached = TRUE]
    /\ qthread' = [qthread EXCEPT ![t].pc = "idle"]
    /\ qhist' = Cached(IF qthread[t].val THEN "yes" ELSE "no")
    /\ UNCHANGED <<g_cpu_caps, g_caps_initialized>>
    /\ ProbeFrame

\* nativeCpuCaps, line 85 and detect_cpu_caps, line 48: the flag is read.
CpuCaps(t) ==
    /\ qthread[t].pc = "idle"
    /\ qthread[t].cap_queries < MaxQueries
    /\ qthread' = [qthread EXCEPT ![t].pc = IF g_caps_initialized THEN "idle" ELSE "caps",
                                  ![t].cap_queries = @ + 1]
    /\ UNCHANGED <<g_crypto_cache, g_cpu_caps, g_caps_initialized, qhist>>
    /\ ProbeFrame

\* detect_cpu_caps, lines 50-68: the bits are added to the mask.
DetectCaps(t) ==
    /\ qthread[t].pc = "caps"
    /\ g_cpu_caps' = BitOr(g_cpu_caps, HardwareCaps(qhw))
    /\ qhist' = [qhist EXCEPT !.cap_detections = @ + 1]
    /\ qthread' = [qthread EXCEPT ![t].pc = "caps done"]
    /\ UNCHANGED <<g_crypto_cache, g_caps_initialized>>
    /\ ProbeFrame

\* detect_cpu_caps, line 70.
PublishCaps(t) ==
    /\ qthread[t].pc = "caps done"
    /\ g_caps_initialized' = TRUE
    /\ qthread' = [qthread EXCEPT ![t].pc = "idle"]
    /\ UNCHANGED <<g_crypto_cache, g_cpu_caps, qhist>>
    /\ ProbeFrame

ProbeNext ==
    \/ \E t \in ProbeThreads : HasCryptoExtensions(t)
    \/ \E t \in ProbeThreads : DetectCrypto(t)
    \/ \E t \in ProbeThreads : StoreAvailable(t)
    \/ \E t \in ProbeThreads : StoreCached(t)
    \/ \E t \in ProbeThreads : CpuCaps(t)
    \/ \E t \in ProbeThreads : DetectCaps(t)
    \/ \E t \in ProbeThreads : PublishCaps(t)

----------------------------------------------------------------------------
(* Specifications, one per subsystem                                       *)

vars == <<hvars, rbvars, cvars, poolvars, apivars, slotvars, burstvars, probevars>>

HyperIdleCapacity == 1

InitHyperRing ==
    /\ \E capacity \in HyperCapHints : HInit(capacity)
    /\ RbInit(PerfCapacityHint)
    /\ CInit
    /\ AInit
    /\ BInit
    /\ QInit
    /\ PInit

SpecHyperRing == InitHyperRing /\ [][HNext]_vars

InitRingCalls ==
    /\ HInit(HyperIdleCapacity)
    /\ RbInit(PerfCapacityHint)
    /\ CInit
    /\ AInit
    /\ BInit
    /\ QInit
    /\ PInit

SpecRingCalls == InitRingCalls /\ [][ApiNext]_vars

InitPerfRing ==
    /\ HInit(HyperIdleCapacity)
    /\ RbInit(PerfCapacityHint)
    /\ CInit
    /\ AInit
    /\ BInit
    /\ QInit
    /\ PInit

SpecPerfRing == InitPerfRing /\ [][RbNext]_vars

\* Either ring alone, from its created state: the runs of the slot ring
\* while nobody called the byte ring, and those of the byte ring while
\* nobody called the slot ring.
HyperUntouched ==
    /\ hprod = HyperProdIdle
    /\ hcons = HyperConsIdle
    /\ hWritten = << >>
    /\ hWriteRet = "none"
    /\ hReadRet = "none"

PerfUntouched ==
    /\ rbw = PerfIdle
    /\ rbr = PerfIdle
    /\ rbTotW = 0

RingOwnersNext ==
    \/ PerfUntouched /\ HNext
    \/ HyperUntouched /\ RbNext

SpecRingOwners == InitHyperRing /\ [][RingOwnersNext]_vars

InitCrypto ==
    /\ HInit(HyperIdleCapacity)
    /\ RbInit(PerfCapacityHint)
    /\ CInit
    /\ AInit
    /\ BInit
    /\ QInit
    /\ PInit

SpecCrypto == InitCrypto /\ [][CNext]_vars

\* The crypto pool with the mark of a shutdown, no caller waiting on a job.
CShutdownNext ==
    \/ \E w \in Workers : WorkerLoop(w)
    \/ \E w \in Workers : WorkerTake(w)
    \/ \E w \in Workers : WorkerProcess(w)
    \/ \E w \in Workers : WorkerPublish(w)
    \/ \E a \in JobAddrs, slot \in CryptoSlots, outputLen \in OutputLens :
          SubmitCreate(a, slot, outputLen)
    \/ SubmitNotify
    \/ \E a \in JobAddrs : FreeCryptoJob(a)
    \/ MarkNotRunning

\* The crypto pool with a producer that writes the slots again.
CSlotsNext ==
    \/ \E w \in Workers : WorkerLoop(w)
    \/ \E w \in Workers : WorkerTake(w)
    \/ \E w \in Workers : WorkerProcess(w)
    \/ \E w \in Workers : WorkerPublish(w)
    \/ \E a \in JobAddrs, slot \in CryptoSlots, outputLen \in OutputLens :
          SubmitCreate(a, slot, outputLen)
    \/ SubmitNotify
    \/ \E a \in JobAddrs : FreeCryptoJob(a)
    \/ \E slot \in CryptoSlots, length \in PayloadLengths : ProducerRewrite(slot, length)

SpecCryptoSlots == InitCrypto /\ [][CSlotsNext]_vars

\* Every worker thread runs on as long as it has a step to take.
WorkersFair ==
    \A w \in Workers :
        /\ WF_vars(WorkerLoop(w))
        /\ WF_vars(WorkerTake(w))
        /\ WF_vars(WorkerProcess(w))
        /\ WF_vars(WorkerPublish(w))

SpecCryptoShutdown == InitCrypto /\ [][CShutdownNext]_vars /\ WorkersFair

InitPool ==
    /\ HInit(HyperIdleCapacity)
    /\ RbInit(PerfCapacityHint)
    /\ CInit
    /\ AInit
    /\ BInit
    /\ QInit
    /\ PInit

SpecPool == InitPool /\ [][PoolNext]_vars

InitPoolAcqRel ==
    /\ HInit(HyperIdleCapacity)
    /\ RbInit(PerfCapacityHint)
    /\ CInit
    /\ AInit
    /\ BInit
    /\ QInit
    /\ \E n \in PoolSizeArgs : pools = PoolAfterInit(n)
    /\ kopen = {}
    /\ kbroken = {}
    /\ pinitTh = PoolInitIdle
    /\ pdestTh = PoolDestroyIdle
    /\ pheld = [t \in Callers |-> {}]
    /\ pcloses = [fd \in Fds |-> 0]
    /\ pacq = NoAcquire
    /\ kconn = [fd \in Fds |-> NoPeer]
    /\ pconn = NoConnect
    /\ prel = NoRelease
    /\ popened = [c \in PoolTypes |-> NoneOpened]
    /\ pghost = {"held", "closes"}

SpecPoolAcqRel == InitPoolAcqRel /\ [][PoolAcqRelNext]_vars

\* The pool in a given state, with a given choice of histories recorded.
PInitWith(initial, ghost) ==
    /\ pools = initial
    /\ kopen = {}
    /\ kbroken = {}
    /\ pinitTh = PoolInitIdle
    /\ pdestTh = PoolDestroyIdle
    /\ pheld = [t \in Callers |-> {}]
    /\ pcloses = [fd \in Fds |-> 0]
    /\ pacq = NoAcquire
    /\ kconn = [fd \in Fds |-> NoPeer]
    /\ pconn = NoConnect
    /\ prel = NoRelease
    /\ popened = [c \in PoolTypes |-> NoneOpened]
    /\ pghost = ghost

InitPoolConn ==
    /\ HInit(HyperIdleCapacity)
    /\ RbInit(PerfCapacityHint)
    /\ CInit
    /\ AInit
    /\ BInit
    /\ QInit
    /\ \E n \in PoolSizeArgs : PInitWith(PoolAfterInit(n), {})

SpecPoolConn == InitPoolConn /\ [][PoolConnNext]_vars

SpecPoolExt == InitPoolConn /\ [][PoolExtNext]_vars

\* The same calls, with the history of the releases.
InitPoolRel ==
    /\ HInit(HyperIdleCapacity)
    /\ RbInit(PerfCapacityHint)
    /\ CInit
    /\ AInit
    /\ BInit
    /\ QInit
    /\ \E n \in PoolSizeArgs : PInitWith(PoolAfterInit(n), {"rel"})

SpecPoolRel == InitPoolRel /\ [][PoolRelNext]_vars

\* Acquire, connect and release, with the history of what the connect calls
\* returned.
InitPoolConnRet ==
    /\ HInit(HyperIdleCapacity)
    /\ RbInit(PerfCapacityHint)
    /\ CInit
    /\ AInit
    /\ BInit
    /\ QInit
    /\ \E n \in PoolSizeArgs : PInitWith(PoolAfterInit(n), {"ret"})

SpecPoolConnRet == InitPoolConnRet /\ [][PoolConnRetNext]_vars

\* Acquire and release by the holders, with the count of the sockets created.
InitPoolCycles ==
    /\ HInit(HyperIdleCapacity)
    /\ RbInit(PerfCapacityHint)
    /\ CInit
    /\ AInit
    /\ BInit
    /\ QInit
    /\ \E n \in PoolSizeArgs : PInitWith(PoolAfterInit(n), {"held", "opened"})

SpecPoolCycles == InitPoolCycles /\ [][PoolAcqRelNext]_vars

InitPoolLife ==
    /\ HInit(HyperIdleCapacity)
    /\ RbInit(PerfCapacityHint)
    /\ CInit
    /\ AInit
    /\ BInit
    /\ QInit
    /\ PInitWith([c \in PoolTypes |-> EmptyPool], {})

SpecPoolLife == InitPoolLife /\ [][PoolLifeNext]_vars

\* The burst tracker and the capability probes, the rest idle.
SpecBurst == InitCrypto /\ [][BurstNext]_vars

InitProbe ==
    /\ HInit(HyperIdleCapacity)
    /\ RbInit(PerfCapacityHint)
    /\ CInit
    /\ AInit
    /\ BInit
    /\ \E hw \in Hardware : QInitOn(hw)
    /\ PInit

SpecProbe == InitProbe /\ [][ProbeNext]_vars

\* The calls of one thread from the static state, with the count of the closes.
InitPoolSeq ==
    /\ HInit(HyperIdleCapacity)
    /\ RbInit(PerfCapacityHint)
    /\ CInit
    /\ AInit
    /\ BInit
    /\ QInit
    /\ PInitWith([c \in PoolTypes |-> EmptyPool], {"closes", "life"})

SpecPoolSeq == InitPoolSeq /\ [][PoolSeqNext]_vars

----------------------------------------------------------------------------
(* Claims on the slot ring                                                 *)

\* Packets written and not yet read.
HyperOccupancy == hring.write_pos - hring.read_pos

\* C1: the occupancy of the slot ring stays in 0..capacity, and a write that
\* finds the ring full (the positions it loaded are capacity apart) does not
\* go on to store a packet; a read that finds it empty does not advance.
C1_SlotRingCapacity ==
    /\ HyperOccupancy \in 0 .. hring.capacity
    /\ hprod.pc # "idle" => hprod.write_pos - hprod.read_pos < hring.capacity
    /\ hcons.pc # "idle" => hcons.write_pos - hcons.read_pos > 0

IsPrefix(s, t) == Len(s) <= Len(t) /\ \A k \in 1 .. Len(s) : s[k] = t[k]

\* C2: the k-th successful read returns the slot holding the payload of the
\* k-th successful write.
C2_SlotRingFifo == IsPrefix(hReadLog, hWritten)

----------------------------------------------------------------------------
(* Claims on the byte ring                                                 *)

\* Either side has taken a position across the wrap threshold.
PerfWrapped == rb.write_seq # 0 \/ rb.read_seq # 0

\* C3: also after a position crossed the wrap threshold, the occupancy each
\* side computes equals the bytes written and not yet read, that amount stays
\* in 0..capacity, and the bytes are read back in the order written.
C3_PerfRingAbaSafe ==
    /\ rbTotW - rbTotR \in 0 .. rb.capacity
    /\ rbw.occ = rbw.trueOcc
    /\ rbr.occ = rbr.trueOcc
    /\ rbFifoOk

\* The same statement before any wrap: it holds as long as both sequences
\* are still 0.
C3_PerfRingBeforeWrap == PerfWrapped \/ C3_PerfRingAbaSafe

----------------------------------------------------------------------------
(* Claims on the crypto worker pool                                        *)

\* C4: every job is processed by at most one worker: its output buffer is
\* written by one worker only and its done flag is stored once.
C4_CryptoExclusive ==
    \A a \in JobAddrs :
        cjobs[a].alloc => Cardinality(cjobs[a].writers) <= 1 /\ cjobs[a].doneStores <= 1

\* C5: no worker reads or writes a job after release freed it.
C5_ReleaseSafe == ~cuaf

\* C6: an await with a positive timeout returns Timeout only once the
\* timeout has elapsed, and no await is still waiting after its deadline.
C6_TimeoutOnlyAfterDeadline ==
    (caw.returned /\ caw.result = TimedOut /\ caw.timeoutMs > 0)
        => caw.retClock - caw.start >= caw.timeoutMs

C6_NoWaitPastDeadline == ~caw.overdue

C6_AwaitHonoursTimeout == C6_TimeoutOnlyAfterDeadline /\ C6_NoWaitPastDeadline

\* C7: every await on an accepted job returns with done = true and an output
\* length that is at least the input length.
C7_AwaitReturnsDone ==
    caw.returned => /\ cjobs[caw.job].done
                    /\ caw.result >= caw.inputLen

----------------------------------------------------------------------------
(* Claims on the connection pool                                           *)

\* C8: the pool calls close at most once on an fd it opened.
C8_NoDoubleClose == \A fd \in Fds : pcloses[fd] <= 1

\* A broken socket was released: the first slot of a pool lost its fd while
\* the second still has its own (so no init or destroy came in between), and
\* the fd the first slot had is closed, closed once.
C8_Witness ==
    \E c \in PoolTypes :
        /\ Len(pools[c].slots) >= 2
        /\ SlotAt(pools[c], 0).fd = NoFd
        /\ ~SlotAt(pools[c], 0).in_use
        /\ SlotAt(pools[c], 1).fd \in kopen
        /\ \E fd \in Fds \ {SlotAt(pools[c], 1).fd} : pcloses[fd] = 1 /\ fd \notin kopen

\* All the slots currently handed out, with the caller holding them.
HeldBy == {th \in Callers \X UNION {pheld[u] : u \in Callers} : th[2] \in pheld[th[1]]}

C10_InUseMeansHeld ==
    /\ \A x \in HeldBy :
          /\ x[2].idx \in SlotIndices(pools[x[2].class])
          /\ SlotAt(pools[x[2].class], x[2].idx).in_use
          /\ SlotAt(pools[x[2].class], x[2].idx).fd = x[2].fd
          /\ x[2].fd \in kopen
    /\ \A c \in PoolTypes : \A i \in SlotIndices(pools[c]) :
          SlotAt(pools[c], i).in_use => \E x \in HeldBy : x[2].class = c /\ x[2].idx = i

\* C11: a connect call that finds the socket of the slot connected to another
\* endpoint shuts that connection down before it calls connect().
C11_ShutdownBeforeSwitch == pconn.switch => pconn.shut

C13_EverOpenedBounded ==
    \A c \in PoolTypes : popened[c].ever <= Len(pools[c].slots) + 1

\* C13, amended: the fds created for a pool type and open now are at most as
\* many as its slots, whatever acquire and release cycles have happened,
\* dropped and replaced sockets included.
C13_OpenNowBounded ==
    \A c \in PoolTypes : Cardinality(OpenNow(c)) <= Len(pools[c].slots)

\* A pool type with every slot holding an open fd after a socket of that
\* pool type was dropped and replaced.
C13_Witness ==
    \E c \in PoolTypes :
        /\ popened[c].kept > Len(pools[c].slots)
        /\ Cardinality(OpenNow(c)) = Len(pools[c].slots)
        /\ \A i \in SlotIndices(pools[c]) : SlotAt(pools[c], i).fd \in kopen

C14_NoFdNotConnected ==
    \A c \in PoolTypes : \A i \in SlotIndices(pools[c]) :
        SlotAt(pools[c], i).fd < 0 => ~SlotAt(pools[c], i).connected

\* A slot that was connected lost its fd: its socket is closed, the slot
\* keeps the endpoint it was connected to, and init has not rebuilt it.
C14_Witness ==
    \E c \in PoolTypes : \E i \in SlotIndices(pools[c]) :
        /\ SlotAt(pools[c], i).fd < 0
        /\ SlotAt(pools[c], i).remote_addr # NoHost
        /\ SlotAt(pools[c], i).remote_port # 0
        /\ ~SlotAt(pools[c], i).connected


\* C15: a write on an empty ring followed by a read gives back a slot whose
\* payload is the bytes written and whose metadata (timestamp, length,
\* flags, queue) are the values supplied to the write, whatever they are.
C15_RoundTrip ==
    hcall.roundtrip =>
        /\ hcall.got.payload.bytes = hcall.supplied.bytes
        /\ AsJlong(hcall.got.meta.timestampNs) = hcall.supplied.timestampNs
        /\ hcall.got.meta.length = hcall.supplied.length
        /\ hcall.got.meta.flags = hcall.supplied.flags
        /\ hcall.got.meta.queue = hcall.supplied.queue

\* C16: a write that does not succeed (it returns 0) leaves the ring as it
\* was: both positions and every slot's metadata, payload and payload size.
C16_FailedWriteChangesNothing ==
    (hcall.op = "write" /\ hcall.ret = 0) => ~hcall.changed

\* C17: a write with a negative offset, a negative length or an array
\* shorter than offset + length returns a negative code, not the 0 of a
\* full ring, and leaves the ring as it was.
C17_InvalidWriteIsNegative ==
    (/\ hcall.op = "write"
     /\ \/ hcall.supplied.bytes.from < 0
        \/ hcall.supplied.length < 0
        \/ hcall.supplied.bytes.from + hcall.supplied.length > ArrayLength)
    => (hcall.ret < 0 /\ ~hcall.changed)

\* C18: create returns 0 for a capacity <= 0 or > 65,536; for any other
\* capacity the ring it returns (it returns one unless memory runs out) has
\* as capacity the smallest power of two >= the capacity asked for, as mask
\* that capacity - 1, and its four counters at 0.
C18_CreateCapacity ==
    hcall.op = "create" =>
        IF hcall.requested <= 0 \/ hcall.requested > 65536
        THEN hcall.ret = 0
        ELSE hcall.ret # 0 =>
                /\ \E k \in 0 .. 16 : hapi.ring.capacity = 2 ^ k
                /\ hapi.ring.capacity >= hcall.requested
                /\ hapi.ring.capacity \div 2 < hcall.requested
                /\ hapi.ring.capacity <= 65536
                /\ hapi.ring.capacity_mask = hapi.ring.capacity - 1
                /\ hapi.ring.write_pos = 0 /\ hapi.ring.write_seq = 0
                /\ hapi.ring.read_pos = 0 /\ hapi.ring.read_seq = 0

\* A ring created for the largest capacity allowed, after an earlier call.
C18_Witness ==
    /\ hcall.op = "create"
    /\ hcall.requested = 65536
    /\ hcall.ret # 0
    /\ hapi.ring.capacity = 65536
    /\ hapi.calls > 1

\* C19: a destroy of a ring, the second one on the same handle included,
\* frees nothing twice and touches no memory already freed.
C19_DestroyTwiceSafe ==
    hcall.op \in {"destroy", "destroy_rb"} => (~hcall.touched_freed /\ ~hcall.freed_twice)


InitTurnClass == IF pinitTh.pc = "idle" THEN 0 ELSE pinitTh.idx
InitTurnSize == IF pinitTh.pc = "idle" THEN pinitTh'.sizes[1] ELSE pinitTh.sizes[pinitTh.idx + 1]
DestroyTurnClass == IF pdestTh.pc = "idle" THEN 0 ELSE pdestTh.idx
AllFresh(pool) ==
    \A i \in SlotIndices(pool) :
        SlotAt(pool, i).fd < 0 /\ ~SlotAt(pool, i).in_use /\ ~SlotAt(pool, i).connected

\* C24: a turn of init leaves its class with the size computed from the
\* argument and every slot unconnected, not in use and without fd, and closes
\* each fd the class held exactly once; on a class already in that state it
\* changes nothing and closes nothing, and a finished init(n) leaves the
\* state a single init(n) leaves.
C24_InitIdempotent ==
    [][pinitTh' # pinitTh =>
        LET c == InitTurnClass
            n == InitTurnSize
        IN  /\ Len(pools'[c].slots) = n
            /\ pools'[c].initialized
            /\ AllFresh(pools'[c])
            /\ \A fd \in OpenFdsOf(pools[c]) : fd \notin kopen' /\ pcloses'[fd] = 1
            /\ \A fd \in Fds \ OpenFdsOf(pools[c]) :
                    pcloses'[fd] = pcloses[fd] /\ (fd \in kopen' <=> fd \in kopen)
            /\ (pools[c].initialized /\ Len(pools[c].slots) = n /\ AllFresh(pools[c]))
                    => (pools'[c] = pools[c] /\ kopen' = kopen /\ pcloses' = pcloses)
            /\ pinitTh'.pc = "idle" => pools' = PoolAfterInit(pinitTh.pool_size_per_type)]_vars

\* A second init(n) has closed the socket opened after the first and left the
\* pools as the first had.
C24_Witness ==
    /\ pinitTh.pc = "run"
    /\ pinitTh.idx = 1
    /\ pinitTh.closed >= 1
    /\ pools = PoolAfterInit(pinitTh.pool_size_per_type)

\* C25: a turn of destroy closes each fd of its class once and empties the
\* class; on an empty class it changes nothing and closes nothing, and after
\* a finished destroy every class is empty and no socket of the pool is open.
C25_DestroyIdempotent ==
    [][pdestTh' # pdestTh =>
        LET c == DestroyTurnClass
        IN  /\ pools'[c].slots = << >>
            /\ ~pools'[c].initialized
            /\ \A fd \in OpenFdsOf(pools[c]) : fd \notin kopen' /\ pcloses'[fd] = 1
            /\ \A fd \in Fds \ OpenFdsOf(pools[c]) :
                    pcloses'[fd] = pcloses[fd] /\ (fd \in kopen' <=> fd \in kopen)
            /\ pools[c] = EmptyPool
                    => (pools' = pools /\ kopen' = kopen /\ pcloses' = pcloses)
            /\ pdestTh'.pc = "idle"
                    => (/\ \A k \in PoolTypes : pools'[k] = EmptyPool
                        /\ kopen' = {})]_vars

\* A second destroy is under way on the pools the first, which closed a
\* socket, has emptied, and has closed nothing.
C25_Witness ==
    /\ pdestTh.pc = "run"
    /\ pdestTh.idx = 2
    /\ pdestTh.closed = 0
    /\ pdestTh.last >= 1
    /\ \A k \in PoolTypes : pools[k] = EmptyPool
\* C26: a connect call that succeeded at once or found the slot connected to
\* the same endpoint returns Ok, one the kernel completes later returns
\* InProgress, any other returns Failed, the three being different values,
\* and the slot is marked connected when the call returns only if it
\* returned Ok.
C26_ConnectOutcomes ==
    /\ pconn.outcome = "reuse" => pconn.ret = ConnectReturn("ok")
    /\ pconn.outcome = "inprogress"
            => pconn.ret \notin {ConnectReturn("ok"), ConnectReturn("error")}
    /\ pconn.outcome \in {"error", "reject", "badhost"} => pconn.ret # ConnectReturn("ok")
    /\ pconn.marked => pconn.outcome \in {"ok", "reuse"}
\* C29: in a ring created with a payload pool, the payload a write stored in
\* the pool for slot i starts at i times the payload size given to create,
\* ends inside the pool and shares no byte with that of another slot.
C29_SlabAddressing ==
    hapi.mem = "live" =>
        LET ring == hapi.ring
            payload_size == ring.payload_pool_size \div ring.capacity
        IN  \A i \in SlotsHolding(ring, "pool") :
                /\ ring.slots[i].payload.at = i * payload_size
                /\ ring.slots[i].payload.at + ring.slots[i].payloadSize
                        <= ring.payload_pool_size
                /\ \A j \in SlotsHolding(ring, "pool") \ {i} :
                        ring.slots[i].payload.at + ring.slots[i].payloadSize
                            <= ring.slots[j].payload.at
                        \/ ring.slots[j].payload.at + ring.slots[j].payloadSize
                            <= ring.slots[i].payload.at

\* C30: every block malloc gave to a write is, while the ring lives, the
\* payload of exactly one slot and not freed, and after destroy freed once.
C30_PayloadOwnership ==
    /\ hapi.mem = "live" =>
            \A b \in DOMAIN hapi.heap :
                /\ hapi.heap[b] = 0
                /\ Cardinality({i \in SlotsHolding(hapi.ring, "heap") :
                                    hapi.ring.slots[i].payload.at = b}) = 1
    /\ hapi.mem = "freed" => \A b \in DOMAIN hapi.heap : hapi.heap[b] = 1
\* C28: the bytes a worker wrote to the output buffer of a job, the payload
\* size of the slot when it processed the job, fit in the capacity the buffer
\* got at submit, whatever the producer did to the slot in between.
C28_OutputFitsPayload ==
    \A a \in JobAddrs : cjobs[a].alloc => cjobs[a].outputSize <= cjobs[a].outputCap
\* C21: whatever calls were made on the tracker, the level nativeGetBurstLevel
\* returns is one of the five levels of the enum.
C21_LevelInEnum ==
    GetBurstLevel \in {BURST_NONE, BURST_LOW, BURST_MEDIUM, BURST_HIGH, BURST_EXTREME}

\* C22: when the first three windows of a fresh tracker, each closed as soon
\* as its 10 ms are over, carried 2, 20 and 120 Mbps, the levels read after
\* them are Low, Medium and Extreme.
C22_ScenarioS6 ==
    (/\ Len(bwindows) >= 3
     /\ \A k \in 1 .. 3 : bwindows[k].elapsed = windowNs + 1
     /\ bwindows[1].rate * 8 = 2000000
     /\ bwindows[2].rate * 8 = 20000000
     /\ bwindows[3].rate * 8 = 120000000)
        => (/\ bwindows[1].level = BURST_LOW
            /\ bwindows[2].level = BURST_MEDIUM
            /\ bwindows[3].level = BURST_EXTREME)

\* C27: each detection is run at most once in the process, and no query
\* answered from the cache returns another value than the one first cached.
C27_DetectOnce ==
    /\ qhist.detections <= 1
    /\ qhist.cap_detections <= 1
    /\ ~qhist.diverged

\* C32: an update adds its bytes to the current window; when its timestamp
\* is more than 10 ms after the window's start it first folds the window's
\* rate in bits per second into the smoothed rate with alpha = 0.1, sets the
\* level of the new smoothed rate and starts a new window; otherwise it
\* leaves the smoothed rate and the level alone.
C32_WindowAlgorithm ==
    blast.op = "update" =>
        LET before  == blast.before
            elapsed == BurstElapsed(blast.timestampNs, before.windowStartNs)
        IN  IF elapsed > windowNs
            THEN LET bits == 8 * BurstIntensity(before.byteCount, elapsed)
                 IN  /\ g_burst_tracker.currentBurst = BurstSmoothed(before.currentBurst, bits)
                     /\ g_burst_tracker.level = BurstLevelOf(g_burst_tracker.currentBurst)
                     /\ g_burst_tracker.windowStartNs = blast.timestampNs
                     /\ g_burst_tracker.byteCount = blast.bytes
            ELSE /\ g_burst_tracker.currentBurst = before.currentBurst
                 /\ g_burst_tracker.level = before.level
                 /\ g_burst_tracker.windowStartNs = before.windowStartNs
                 /\ g_burst_tracker.byteCount = before.byteCount + blast.bytes

\* C33: of two windows closed on one tracker, the one with the larger
\* smoothed rate never has the lower level, and equal smoothed rates give
\* equal levels, whatever the level was before each window closed.
C33_ClassifierPure ==
    \A j, k \in 1 .. Len(bwindows) :
        /\ bwindows[j].smoothed = bwindows[k].smoothed
                => bwindows[j].level = bwindows[k].level
        /\ bwindows[j].smoothed <= bwindows[k].smoothed
                => bwindows[j].level <= bwindows[k].level

\* Two windows of different levels, the second closed after a hint had set
\* a higher level than its own.
C33_Witness ==
    \E j, k \in 1 .. Len(bwindows) :
        /\ bwindows[j].smoothed < bwindows[k].smoothed
        /\ bwindows[j].level < bwindows[k].level
        /\ bwindows[k].was > bwindows[k].level

\* C40: an update whose timestamp is not more than 10 ms after the window's
\* start, one earlier than the start included, changes neither the smoothed
\* rate, the level nor the start of the window and adds its bytes to it.
C40_EarlyUpdateKeepsWindow ==
    (/\ blast.op = "update"
     /\ blast.timestampNs <= blast.before.windowStartNs + windowNs)
        => (/\ g_burst_tracker.currentBurst = blast.before.currentBurst
            /\ g_burst_tracker.level = blast.before.level
            /\ g_burst_tracker.windowStartNs = blast.before.windowStartNs
            /\ g_burst_tracker.byteCount = blast.before.byteCount + blast.bytes)

\* C31: a step of write leaves read_pos and read_seq as they are and
\* changes, of the ring, only write_pos, write_seq and the slot bodies; a
\* step of read leaves write_pos, write_seq and every slot body as they are
\* and changes only read_pos and read_seq.  Both rings.
C31_CursorOwnership ==
    [][/\ <<hprod, hWritten, hWriteRet>>' # <<hprod, hWritten, hWriteRet>>
            => hring' = [hring EXCEPT !.write_pos = hring'.write_pos,
                                      !.slots = hring'.slots]
       /\ <<hcons, hReadLog, hReadRet>>' # <<hcons, hReadLog, hReadRet>>
            => hring' = [hring EXCEPT !.read_pos = hring'.read_pos]
       /\ <<rbw, rbTotW>>' # <<rbw, rbTotW>>
            => rb' = [rb EXCEPT !.write_pos = rb'.write_pos,
                                !.write_seq = rb'.write_seq,
                                !.data = rb'.data]
       /\ <<rbr, rbTotR, rbFifoOk>>' # <<rbr, rbTotR, rbFifoOk>>
            => rb' = [rb EXCEPT !.read_pos = rb'.read_pos,
                                !.read_seq = rb'.read_seq]]_vars

\* The byte ring after both cursors wrapped: the writer and the reader have
\* each stored their position and their sequence.
C31_Witness ==
    /\ rb.write_seq = 1
    /\ rb.read_seq = 1
    /\ rbTotR > 0
    /\ rb.write_pos # rb.read_pos

\* C39: a write that copied bytes (it returned a slot) took them from
\* indices of the source array: for offset >= 0 and length >= 0 the bytes
\* lie in [0, array_length), also when offset + length does not fit a jint.
C39_SourceBounds ==
    (hcall.op = "write" /\ hcall.ret # 0)
        => (/\ hcall.supplied.bytes.from >= 0
            /\ hcall.supplied.bytes.len >= 0
            /\ hcall.supplied.bytes.from + hcall.supplied.bytes.len <= ArrayLength)

\* C34: an acquire that hands out a slot whose socket is healthy and
\* connected, as its last holder left it, leaves the slot marked connected
\* with the endpoint recorded, so that a connect to that endpoint is a reuse.
C34_PersistentReuse ==
    [][\A c \in PoolTypes :
         \A i \in SlotIndices(pools[c]) \cap SlotIndices(pools'[c]) :
            LET before == SlotAt(pools[c], i)
                after  == SlotAt(pools'[c], i)
            IN  (/\ ~before.in_use
                 /\ after.in_use
                 /\ before.fd >= 0
                 /\ after.fd = before.fd
                 /\ checkSocketHealth(before.fd)
                 /\ before.connected
                 /\ kconn[before.fd] = Peer("est", before.remote_addr, before.remote_port))
                    => (/\ after.connected
                        /\ after.remote_addr = before.remote_addr
                        /\ after.remote_port = before.remote_port)]_vars

\* C35: no two slots of a pool hold the same fd >= 0, so that
\* findSlotIndexByFd and the calls by fd name at most one slot, also after a
\* holder closed its fd and socket() gave the number to a later acquire.
C35_FdUnique ==
    \A c \in PoolTypes : \A i, j \in SlotIndices(pools[c]) :
        (i # j /\ SlotAt(pools[c], i).fd >= 0)
            => SlotAt(pools[c], i).fd # SlotAt(pools[c], j).fd

\* C36: a slot marked connected records the address and the port its socket
\* is connected to, those of the last connect that succeeded on it; and a
\* connect call that fails leaves the record of a slot that stays connected
\* as it was.
C36_EndpointRecord ==
    [][\A c \in PoolTypes :
         \A i \in SlotIndices(pools[c]) \cap SlotIndices(pools'[c]) :
            LET before == SlotAt(pools[c], i)
                after  == SlotAt(pools'[c], i)
            IN  /\ (after.connected /\ after.fd >= 0)
                      => kconn'[after.fd] = Peer("est", after.remote_addr, after.remote_port)
                /\ (before.connected /\ after.connected /\ pconn'.ret = ConnectReturn("error"))
                      => (/\ after.remote_addr = before.remote_addr
                          /\ after.remote_port = before.remote_port)]_vars

\* C37: a connect call turned down for its arguments or the state of the
\* slot (pool type, slot index, fd not in the pool, slot not in use or
\* without socket, host no IPv4 address) returns Failed and changes no slot
\* and no connection.
C37_RejectedConnect ==
    [][(pconn' # pconn /\ pconn'.outcome \in {"reject", "badhost"})
          => (/\ pconn'.ret = ConnectReturn("error")
              /\ pools' = pools
              /\ kconn' = kconn)]_vars

\* C38: an acquire that fails, the one whose socket() or fcntl() failed
\* included, returns no fd, changes no slot (the slot it tried keeps fd < 0
\* and stays free) and leaves no socket open that it created.
C38_FailedAcquire ==
    [][/\ (pacq' # pacq /\ ~pacq'.granted)
            => (pools' = pools /\ kopen' = kopen /\ pheld' = pheld)
       /\ \A c \in PoolTypes :
            (popened'[c].ever > popened[c].ever /\ popened'[c].kept = popened[c].kept)
                => (/\ ~pacq'.granted
                    /\ pools' = pools
                    /\ kopen' = kopen
                    /\ pheld' = pheld)]_vars

\* A socket was created for a slot and closed again by the failed acquire,
\* and a later acquire gave the slot a socket.
C38_Witness ==
    \E c \in PoolTypes :
        /\ popened[c].ever > popened[c].kept
        /\ popened[c].kept > 0
        /\ pacq.granted
====
